---- MODULE Spec2Model ----
(***************************************************************************)
(* Model of the benchmarking engine of the performance monitor:            *)
(*   app/core/cache.py        CacheManager                                 *)
(*   app/core/performance.py  PerformanceAnalyzer                          *)
(*   app/core/database.py     DatabaseManager.execute_query_async          *)
(*                                                                         *)
(* Python dicts are records, lists are sequences, None is the record None. *)
(* Times are integers in thousandths of a millisecond, so that the         *)
(* rounding to two decimals done by the cache is a real conversion.        *)
(* Averages are exact fractions <<numerator, denominator>>.                *)
(***************************************************************************)
EXTENDS Integers, Sequences, FiniteSets, TLC

VARIABLES
    test_status,    \* PerformanceAnalyzer.test_status
    test_results,   \* PerformanceAnalyzer.test_results (the result history)
    redis,          \* contents of the Redis database behind CacheManager.redis_client
    cache_stats,    \* CacheManager.cache_stats
    backend_calls,  \* invocations of the two backends (relational pool, graph gateway)
    frame,          \* the locals and position of the run in progress, or None
    last,           \* the operation that completed last: its inputs and its outcome
    clock           \* time.time(), in half seconds since the engine was built

vars == <<test_status, test_results, redis, cache_stats, backend_calls, frame, last, clock>>

-----------------------------------------------------------------------------
(* Bounds of the model *)

\* executor calls made in one behaviour of SpecExec
MaxCalls == 3

(* Program constants *)

\* settings.CACHE_TTL_SECONDS
CACHE_TTL_SECONDS == 300

\* Python's None
None == [py_none |-> TRUE]

\* the value of a local variable: the element of a one-element set
Only(S) == CHOOSE x \in S : TRUE

-----------------------------------------------------------------------------
(* Test definitions: PerformanceAnalyzer._get_test_queries.  The query     *)
(* texts are represented by the pair (language, test name); the five texts *)
(* of each language are pairwise different.                                *)

TestNames ==
    {"simple_select", "customer_orders", "order_aggregation", "complex_join",
     "pagination_test"}

test_queries ==
    [n \in TestNames |->
        [sql |-> <<"sql", n>>, graphql |-> <<"graphql", n>>, description |-> <<"description", n>>]]

-----------------------------------------------------------------------------
(* Answers of the collaborators.  A specification draws them from a       *)
(* record of input sets [redis_replies, retrieval_times, rows, times].      *)

\* a Redis command either replies or fails (connection error, timeout)
RedisReplies == {"reply", "error"}

\* an input the call does not consume
Unused == "unused"

\* asyncpg: the rows and the measured time, or an exception (timeout, pool, SQL error)
DbReplies(inp) ==
    {[raised |-> TRUE]} \cup
    {[raised |-> FALSE, rows |-> r, execution_time |-> t] :
        r \in inp.rows, t \in inp.times}

\* JSON bodies of a 200 answer of the graph gateway: data, or query errors
GraphqlBodies(inp) ==
    {[data |-> r] : r \in inp.rows} \cup {[errors |-> <<"query error">>]}

\* aiohttp: an exception (timeout, unreachable), or a response
HttpReplies(inp) ==
    {[raised |-> TRUE]} \cup
    {[raised |-> FALSE, status |-> 200, body |-> b] : b \in GraphqlBodies(inp)} \cup
    {[raised |-> FALSE, status |-> 500, text |-> "internal error"]}

-----------------------------------------------------------------------------
(* CacheManager *)

\* round(x, 2) on a time in thousandths of a ms: to the nearest hundredth,
\* an exact tie to the even hundredth
Round2(t) ==
    LET q == t \div 10
        r == t % 10
    IN  IF r < 5 THEN q * 10
        ELSE IF r > 5 THEN (q + 1) * 10
        ELSE IF q % 2 = 0 THEN q * 10 ELSE (q + 1) * 10

\* a Python list
PyList(xs) == [py_list |-> xs]

\* "<prefix>:<md5 of json.dumps({query, params or []}, sort_keys)>"; the hash
\* is represented by the canonical pair it is computed from
_generate_cache_key(prefix, query, params) ==
    <<prefix, query, IF params = None \/ params = PyList(<<>>) THEN PyList(<<>>) ELSE params>>

\* the keys the engine can address
CacheKeys ==
    {_generate_cache_key(p, test_queries[n][l], None) :
        p \in {"query", "warm"}, n \in TestNames, l \in {"sql", "graphql"}}

\* a stored string that is not the JSON text of a dict: json.loads, or the
\* assignment of a field to what it returns, raises
Undecodable == [py_str |-> "not json"]

\* the try block of get_cached_query: [raised, ret, cache_stats]
GetTry(store, stats, query, params, reply, retrieval_time) ==
    LET cache_key == _generate_cache_key("query", query, params)
        cached_data == store[cache_key]
    IN  IF reply = "error"
        THEN [raised |-> TRUE, cache_stats |-> stats]
        ELSE IF cached_data = Undecodable
        THEN \* the hit is counted before json.loads raises
             [raised |-> TRUE, cache_stats |-> [stats EXCEPT !.hits = @ + 1]]
        ELSE IF cached_data # None
        THEN \* result = json.loads(cached_data), with the two fields set
             [raised |-> FALSE,
              ret |-> [cache_hit |-> TRUE,
                       cache_retrieval_time_ms |-> Round2(retrieval_time)] @@ cached_data,
              cache_stats |-> [stats EXCEPT !.hits = @ + 1]]
        ELSE [raised |-> FALSE, ret |-> None,
              cache_stats |-> [stats EXCEPT !.misses = @ + 1]]

\* a lookup whose Redis error is not caught
get_cached_query_unguarded(store, stats, query, params, reply, retrieval_time) ==
    GetTry(store, stats, query, params, reply, retrieval_time)

\* get_cached_query: [raised, ret, cache_stats]
get_cached_query(store, stats, query, params, reply, retrieval_time) ==
    LET t == GetTry(store, stats, query, params, reply, retrieval_time)
    IN  IF t.raised
        THEN \* except Exception
             [raised |-> FALSE, ret |-> None,
              cache_stats |-> [t.cache_stats EXCEPT !.misses = @ + 1]]
        ELSE t

\* a write that derives its key in the warm namespace
cache_query_result_warm_key(store, stats, query, result, params, ttl, reply) ==
    IF reply = "error"
    THEN [ret |-> FALSE, redis |-> store, cache_stats |-> stats]
    ELSE [ret |-> TRUE,
          redis |-> [store EXCEPT ![_generate_cache_key("warm", query, params)] =
                        [data |-> result, ttl |-> CACHE_TTL_SECONDS]],
          cache_stats |-> [stats EXCEPT !.sets = @ + 1]]

\* a write that leaves an entry that is already there, and does not count
cache_query_result_if_absent(store, stats, query, result, params, ttl, reply) ==
    IF reply = "error"
    THEN [ret |-> FALSE, redis |-> store, cache_stats |-> stats]
    ELSE IF store[_generate_cache_key("query", query, params)] # None
    THEN [ret |-> TRUE, redis |-> store, cache_stats |-> stats]
    ELSE [ret |-> TRUE,
          redis |-> [store EXCEPT ![_generate_cache_key("query", query, params)] =
                        [data |-> result, ttl |-> CACHE_TTL_SECONDS]],
          cache_stats |-> [stats EXCEPT !.sets = @ + 1]]

\* cache_query_result: [ret, redis, cache_stats]
cache_query_result(store, stats, query, result, params, ttl, reply) ==
    LET cache_key == _generate_cache_key("query", query, params)
        cache_ttl == IF ttl = None \/ ttl = 0 THEN CACHE_TTL_SECONDS ELSE ttl
        cache_data == [data |-> result, ttl |-> cache_ttl]
    IN  IF reply = "error"
        THEN [ret |-> FALSE, redis |-> store, cache_stats |-> stats]
        ELSE [ret |-> TRUE,
              redis |-> [store EXCEPT ![cache_key] = cache_data],
              cache_stats |-> [stats EXCEPT !.sets = @ + 1]]

\* the glob pattern that matches the keys of a namespace
NamespacePattern(prefix) == IF prefix = "query" THEN "query:*" ELSE "warm:*"

\* the keys of the store a glob pattern matches: "*", or "<prefix>:*"
MatchingKeys(store, pattern) ==
    {k \in DOMAIN store :
        store[k] # None /\ (pattern = "*" \/ pattern = NamespacePattern(k[1]))}

\* an invalidation that deletes and does not count
invalidate_cache_pattern_uncounted(store, stats, pattern, keys_reply, delete_reply) ==
    LET keys == MatchingKeys(store, pattern)
    IN  IF keys_reply = "error" \/ (keys # {} /\ delete_reply = "error")
        THEN [ret |-> 0, redis |-> store, cache_stats |-> stats]
        ELSE [ret |-> Cardinality(keys),
              redis |-> [k \in DOMAIN store |-> IF k \in keys THEN None ELSE store[k]],
              cache_stats |-> stats]

\* invalidate_cache_pattern: [ret, redis, cache_stats].  keys_reply and
\* delete_reply are what Redis answers to KEYS and to DELETE
invalidate_cache_pattern(store, stats, pattern, keys_reply, delete_reply) ==
    LET keys == MatchingKeys(store, pattern)
    IN  IF keys_reply = "error"
        THEN [ret |-> 0, redis |-> store, cache_stats |-> stats]
        ELSE IF keys # {}
        THEN IF delete_reply = "error"
             THEN [ret |-> 0, redis |-> store, cache_stats |-> stats]
             ELSE LET deleted == Cardinality(keys)
                  IN  [ret |-> deleted,
                       redis |-> [k \in DOMAIN store |->
                                     IF k \in keys THEN None ELSE store[k]],
                       cache_stats |-> [stats EXCEPT !.deletes = @ + deleted]]
        ELSE [ret |-> 0, redis |-> store, cache_stats |-> stats]

-----------------------------------------------------------------------------
(* PerformanceAnalyzer: the two executors.  `st` is the state an executor  *)
(* reads and writes, [redis, cache_stats, backend_calls]; `env` holds what *)
(* the collaborators answer during the call.  The result is                *)
(* [raised, ret, redis, cache_stats, backend_calls].                       *)

\* a lookup that reports the executor's unused local cache_time (0) for a hit
CacheLookup_zero_time(st, query, use_cache, env) ==
    LET g == IF use_cache
             THEN get_cached_query(st.redis, st.cache_stats, query, None,
                                   env.get_reply, env.retrieval_time)
             ELSE [raised |-> FALSE, ret |-> None, cache_stats |-> st.cache_stats]
    IN  IF g.ret # None
        THEN [g EXCEPT !.ret.cache_retrieval_time_ms = 0]
        ELSE g

\* a lookup that is made whatever use_cache says
CacheLookup_always(st, query, use_cache, env) ==
    get_cached_query(st.redis, st.cache_stats, query, None,
                     env.get_reply, env.retrieval_time)

\* the lookup both executors start with when use_cache is set
CacheLookup(st, query, use_cache, env) ==
    IF use_cache
    THEN get_cached_query(st.redis, st.cache_stats, query, None,
                          env.get_reply, env.retrieval_time)
    ELSE [raised |-> FALSE, ret |-> None, cache_stats |-> st.cache_stats]

\* an exception leaving an executor: the state is as the raising statement left it
Propagate(st, stats, calls) ==
    [raised |-> TRUE, redis |-> st.redis, cache_stats |-> stats, backend_calls |-> calls]

\* a try block in which a failed cache write raises
SqlTry_write_raises(st, stats, query, use_cache, env) ==
    LET calls == [st.backend_calls EXCEPT !.sql = @ + 1]
    IN  IF env.db.raised \/ (use_cache /\ env.set_reply = "error")
        THEN Propagate(st, stats, calls)
        ELSE LET w == IF use_cache
                      THEN cache_query_result(st.redis, stats, query, env.db.rows,
                                              None, None, env.set_reply)
                      ELSE [ret |-> FALSE, redis |-> st.redis, cache_stats |-> stats]
             IN  [raised |-> FALSE,
                  ret |-> [data |-> env.db.rows,
                           execution_time_ms |-> env.db.execution_time,
                           row_count |-> Len(env.db.rows),
                           cache_hit |-> FALSE,
                           query_type |-> "sql"],
                  redis |-> w.redis, cache_stats |-> w.cache_stats,
                  backend_calls |-> calls]

\* the try block of execute_sql_query: [raised, ret, redis, cache_stats, backend_calls]
SqlTry(st, stats, query, use_cache, env) ==
    LET calls == [st.backend_calls EXCEPT !.sql = @ + 1]
    IN  IF env.db.raised
        THEN Propagate(st, stats, calls)
        ELSE LET response == [data |-> env.db.rows,
                              execution_time_ms |-> env.db.execution_time,
                              row_count |-> Len(env.db.rows),
                              cache_hit |-> FALSE,
                              query_type |-> "sql"]
                 w == IF use_cache
                      THEN cache_query_result(st.redis, stats, query, env.db.rows,
                                              None, None, env.set_reply)
                      ELSE [ret |-> FALSE, redis |-> st.redis, cache_stats |-> stats]
             IN  [raised |-> FALSE, ret |-> response, redis |-> w.redis,
                  cache_stats |-> w.cache_stats, backend_calls |-> calls]

\* an executor without its except clause
execute_sql_query_unguarded(st, query, use_cache, env) ==
    LET look == CacheLookup(st, query, use_cache, env)
    IN  IF look.raised
        THEN Propagate(st, look.cache_stats, st.backend_calls)
        ELSE IF use_cache /\ look.ret # None
        THEN [raised |-> FALSE,
              ret |-> [data |-> look.ret.data,
                       execution_time_ms |-> look.ret.cache_retrieval_time_ms,
                       row_count |-> Len(look.ret.data),
                       cache_hit |-> TRUE,
                       query_type |-> "sql"],
              redis |-> st.redis, cache_stats |-> look.cache_stats,
              backend_calls |-> st.backend_calls]
        ELSE SqlTry(st, look.cache_stats, query, use_cache, env)

execute_sql_query(st, query, use_cache, env) ==
    LET look == CacheLookup(st, query, use_cache, env)
    IN  IF look.raised
        THEN Propagate(st, look.cache_stats, st.backend_calls)
        ELSE IF use_cache /\ look.ret # None
        THEN [raised |-> FALSE,
              ret |-> [data |-> look.ret.data,
                       execution_time_ms |-> look.ret.cache_retrieval_time_ms,
                       row_count |-> Len(look.ret.data),
                       cache_hit |-> TRUE,
                       query_type |-> "sql"],
              redis |-> st.redis, cache_stats |-> look.cache_stats,
              backend_calls |-> st.backend_calls]
        ELSE LET t == SqlTry(st, look.cache_stats, query, use_cache, env)
             IN  IF t.raised
                 THEN \* except Exception
                      [raised |-> FALSE,
                       ret |-> [error |-> "exception",
                                execution_time_ms |-> env.wall_time,
                                query_type |-> "sql"],
                       redis |-> t.redis, cache_stats |-> t.cache_stats,
                       backend_calls |-> t.backend_calls]
                 ELSE t

\* a try block that reports the query errors of a 200 answer in the error field
GraphqlTry_errors_as_error(st, stats, query, use_cache, env) ==
    LET calls == [st.backend_calls EXCEPT !.graphql = @ + 1]
    IN  IF env.http.raised
        THEN Propagate(st, stats, calls)
        ELSE IF env.http.status = 200
        THEN LET result == env.http.body
                 data == IF "data" \in DOMAIN result THEN result.data ELSE <<>>
                 response_data == [data |-> data,
                                   execution_time_ms |-> env.wall_time,
                                   cache_hit |-> FALSE,
                                   query_type |-> "graphql"]
                 w == IF use_cache /\ "errors" \notin DOMAIN result
                      THEN cache_query_result(st.redis, stats, query, data,
                                              None, None, env.set_reply)
                      ELSE [ret |-> FALSE, redis |-> st.redis, cache_stats |-> stats]
             IN  [raised |-> FALSE,
                  ret |-> IF "errors" \in DOMAIN result
                          THEN response_data @@ [error |-> result.errors]
                          ELSE response_data,
                  redis |-> w.redis, cache_stats |-> w.cache_stats,
                  backend_calls |-> calls]
        ELSE [raised |-> FALSE,
              ret |-> [error |-> "http_status",
                       execution_time_ms |-> env.wall_time,
                       query_type |-> "graphql"],
              redis |-> st.redis, cache_stats |-> stats, backend_calls |-> calls]

\* the try block of execute_graphql_query: [raised, ret, redis, cache_stats, backend_calls]
GraphqlTry(st, stats, query, use_cache, env) ==
    LET calls == [st.backend_calls EXCEPT !.graphql = @ + 1]
    IN  IF env.http.raised
        THEN Propagate(st, stats, calls)
        ELSE IF env.http.status = 200
        THEN LET result == env.http.body
                 data == IF "data" \in DOMAIN result THEN result.data ELSE <<>>
                 response_data == [data |-> data,
                                   execution_time_ms |-> env.wall_time,
                                   cache_hit |-> FALSE,
                                   query_type |-> "graphql"]
                 w == IF use_cache /\ "errors" \notin DOMAIN result
                      THEN cache_query_result(st.redis, stats, query, data,
                                              None, None, env.set_reply)
                      ELSE [ret |-> FALSE, redis |-> st.redis, cache_stats |-> stats]
             IN  [raised |-> FALSE,
                  ret |-> IF "errors" \in DOMAIN result
                          THEN response_data @@ [errors |-> result.errors]
                          ELSE response_data,
                  redis |-> w.redis, cache_stats |-> w.cache_stats,
                  backend_calls |-> calls]
        ELSE [raised |-> FALSE,
              ret |-> [error |-> "http_status",
                       execution_time_ms |-> env.wall_time,
                       query_type |-> "graphql"],
              redis |-> st.redis, cache_stats |-> stats, backend_calls |-> calls]

execute_graphql_query(st, query, use_cache, env) ==
    LET look == CacheLookup(st, query, use_cache, env)
    IN  IF look.raised
        THEN Propagate(st, look.cache_stats, st.backend_calls)
        ELSE IF use_cache /\ look.ret # None
        THEN [raised |-> FALSE,
              ret |-> [data |-> look.ret.data,
                       execution_time_ms |-> look.ret.cache_retrieval_time_ms,
                       cache_hit |-> TRUE,
                       query_type |-> "graphql"],
              redis |-> st.redis, cache_stats |-> look.cache_stats,
              backend_calls |-> st.backend_calls]
        ELSE LET t == GraphqlTry(st, look.cache_stats, query, use_cache, env)
             IN  IF t.raised
                 THEN \* except Exception
                      [raised |-> FALSE,
                       ret |-> [error |-> "exception",
                                execution_time_ms |-> env.wall_time,
                                query_type |-> "graphql"],
                       redis |-> t.redis, cache_stats |-> t.cache_stats,
                       backend_calls |-> t.backend_calls]
                 ELSE t

-----------------------------------------------------------------------------
(* Statistics.  A Python float is an exact fraction <<n, d>> with d > 0.   *)

\* sum(xs), by halves
RECURSIVE SumSeq(_)
SumSeq(xs) ==
    IF xs = <<>> THEN 0
    ELSE IF Len(xs) = 1 THEN xs[1]
    ELSE LET h == Len(xs) \div 2
         IN  SumSeq(SubSeq(xs, 1, h)) + SumSeq(SubSeq(xs, h + 1, Len(xs)))

SumSquares(xs) == SumSeq([i \in DOMAIN xs |-> xs[i] * xs[i]])

MinSeq(xs) == CHOOSE x \in {xs[i] : i \in DOMAIN xs} : \A i \in DOMAIN xs : x <= xs[i]

MaxSeq(xs) == CHOOSE x \in {xs[i] : i \in DOMAIN xs} : \A i \in DOMAIN xs : x >= xs[i]

\* sorted(xs): position k holds the value with fewer than k elements below
\* it and at least k elements not above it
Sorted(xs) ==
    [k \in 1..Len(xs) |->
        CHOOSE v \in {xs[i] : i \in DOMAIN xs} :
            /\ Cardinality({i \in DOMAIN xs : xs[i] < v}) < k
            /\ Cardinality({i \in DOMAIN xs : xs[i] <= v}) >= k]

RECURSIVE Gcd(_, _)
Gcd(a, b) == IF b = 0 THEN a ELSE Gcd(b, a % b)

Abs(a) == IF a < 0 THEN -a ELSE a

\* the fraction n / d in lowest terms
Frac(n, d) == LET g == Gcd(Abs(n), d) IN <<n \div g, d \div g>>

FracLess(a, b) == a[1] * b[2] < b[1] * a[2]

\* statistics.mean
Mean(xs) == Frac(SumSeq(xs), Len(xs))

\* statistics.median
Median(xs) ==
    LET d == Sorted(xs)
        n == Len(xs)
    IN  IF n % 2 = 1 THEN Frac(d[(n \div 2) + 1], 1)
        ELSE Frac(d[n \div 2] + d[(n \div 2) + 1], 2)

\* the square of statistics.stdev: the sample variance
Variance(xs) ==
    LET n == Len(xs)
    IN  Frac(n * SumSquares(xs) - SumSeq(xs) * SumSeq(xs), n * (n - 1))

\* statistics.quantiles(xs, n=n)[i - 1], method "exclusive"
Quantile(xs, n, i) ==
    LET d == Sorted(xs)
        ld == Len(xs)
        j0 == (i * (ld + 1)) \div n
        j == IF j0 < 1 THEN 1 ELSE IF j0 > ld - 1 THEN ld - 1 ELSE j0
        delta == i * (ld + 1) - j * n
    IN  Frac(d[j] * (n - delta) + d[j + 1] * delta, n)

\* Python's empty dict
EmptyDict == [py_empty_dict |-> TRUE]

\* statistics that take the rank-based percentiles of every sample of two or more
_calculate_stats_no_fallback(times) ==
    IF times = <<>> THEN EmptyDict
    ELSE [min_ms |-> <<MinSeq(times), 1>>,
          max_ms |-> <<MaxSeq(times), 1>>,
          avg_ms |-> Mean(times),
          median_ms |-> Median(times),
          std_dev_ms |-> IF Len(times) > 1 THEN Variance(times) ELSE <<0, 1>>,
          p95_ms |-> IF Len(times) >= 2 THEN Quantile(times, 20, 19)
                     ELSE <<MaxSeq(times), 1>>,
          p99_ms |-> IF Len(times) >= 2 THEN Quantile(times, 100, 99)
                     ELSE <<MaxSeq(times), 1>>]

\* _calculate_stats; std_dev_ms holds the square of the standard deviation
_calculate_stats(times) ==
    Only({IF xs = <<>> THEN EmptyDict
          ELSE [min_ms |-> <<MinSeq(xs), 1>>,
                max_ms |-> <<MaxSeq(xs), 1>>,
                avg_ms |-> Mean(xs),
                median_ms |-> Median(xs),
                std_dev_ms |-> IF Len(xs) > 1 THEN Variance(xs) ELSE <<0, 1>>,
                p95_ms |-> IF Len(xs) >= 20 THEN Quantile(xs, 20, 19)
                           ELSE <<MaxSeq(xs), 1>>,
                p99_ms |-> IF Len(xs) >= 100 THEN Quantile(xs, 100, 99)
                           ELSE <<MaxSeq(xs), 1>>] : xs \in {times}})

\* a sample that keeps the times of the error results
RECURSIVE SuccessTimes_all(_)
SuccessTimes_all(results) ==
    IF results = <<>> THEN <<>>
    ELSE <<Head(results).execution_time_ms>> \o SuccessTimes_all(Tail(results))

\* [r["execution_time_ms"] for r in results if "error" not in r]
RECURSIVE SuccessTimes(_)
SuccessTimes(results) ==
    IF results = <<>> THEN <<>>
    ELSE IF "error" \in DOMAIN Head(results) THEN SuccessTimes(Tail(results))
    ELSE <<Head(results).execution_time_ms>> \o SuccessTimes(Tail(results))

\* the comparison block of run_single_test: [raised, exception, ret]
Comparison(sql_times, graphql_times) ==
    IF sql_times = <<>> \/ graphql_times = <<>>
    THEN \* statistics.mean of an empty list
         [raised |-> TRUE, exception |-> "StatisticsError"]
    ELSE LET sql_avg == Mean(sql_times)
             graphql_avg == Mean(graphql_times)
         IN  IF sql_avg[1] = 0
             THEN \* (graphql_avg - sql_avg) / sql_avg
                  [raised |-> TRUE, exception |-> "ZeroDivisionError"]
             ELSE [raised |-> FALSE,
                   ret |-> [sql_avg_ms |-> sql_avg,
                            graphql_avg_ms |-> graphql_avg,
                            performance_difference_percent |->
                                Frac(100 * (graphql_avg[1] * sql_avg[2]
                                            - sql_avg[1] * graphql_avg[2]),
                                     sql_avg[1] * graphql_avg[2]),
                            faster_option |-> IF FracLess(sql_avg, graphql_avg)
                                              THEN "sql" ELSE "graphql"]]

\* a condition that adds the comparison when only the SQL sample has values
HasComparison_sql_only(sql_times, graphql_times) ==
    sql_times # <<>> /\ graphql_times = <<>>

\* whether run_single_test adds the comparison
HasComparison(sql_times, graphql_times) == sql_times # <<>> /\ graphql_times # <<>>

\* run_single_test after its two loops: [raised, ret]
SingleResult(f) ==
    LET sql_times == SuccessTimes(f.sql_results)
        graphql_times == SuccessTimes(f.graphql_results)
        test_result ==
            [test_name |-> f.test_name,
             description |-> test_queries[f.test_name].description,
             iterations |-> f.iterations,
             use_cache |-> f.use_cache,
             sql_stats |-> IF sql_times # <<>> THEN _calculate_stats(sql_times) ELSE None,
             graphql_stats |-> IF graphql_times # <<>> THEN _calculate_stats(graphql_times)
                               ELSE None,
             sql_results |-> f.sql_results,
             graphql_results |-> f.graphql_results]
    IN  IF HasComparison(sql_times, graphql_times)
        THEN LET c == Comparison(sql_times, graphql_times)
             IN  IF c.raised THEN [raised |-> TRUE, exception |-> c.exception]
                 ELSE [raised |-> FALSE, ret |-> test_result @@ [comparison |-> c.ret]]
        ELSE [raised |-> FALSE, ret |-> test_result]

-----------------------------------------------------------------------------
(* PerformanceAnalyzer: what each run does before its first await.         *)
(* [raised, test_status]                                                    *)

run_single_test_entry(status, test_name) ==
    IF test_name \notin DOMAIN test_queries
    THEN [raised |-> TRUE, test_status |-> status]
    ELSE [raised |-> FALSE, test_status |-> status]

\* an entry that sets the status before it checks the name
run_individual_test_entry_status_first(status, test_name) ==
    [raised |-> test_name \notin DOMAIN test_queries, test_status |-> "running_individual"]

run_individual_test_entry(status, test_name) ==
    IF test_name \notin DOMAIN test_queries
    THEN [raised |-> TRUE, test_status |-> status]
    ELSE [raised |-> FALSE, test_status |-> "running_individual"]

\* an entry that leaves the status as it finds it
run_concurrent_test_entry_status_kept(status, test_name) ==
    [raised |-> test_name \notin DOMAIN test_queries, test_status |-> status]

run_concurrent_test_entry(status, test_name) ==
    IF test_name \notin DOMAIN test_queries
    THEN [raised |-> TRUE, test_status |-> "running_concurrent"]
    ELSE [raised |-> FALSE, test_status |-> "running_concurrent"]

-----------------------------------------------------------------------------
(* State shared by the specifications *)

\* what an executor reads and writes
ExecState == [redis |-> redis, cache_stats |-> cache_stats, backend_calls |-> backend_calls]

\* CacheManager.__init__, PerformanceAnalyzer.__init__, an empty Redis database
InitEngine ==
    /\ test_status = "idle"
    /\ test_results = <<>>
    /\ redis = [k \in CacheKeys |-> None]
    /\ cache_stats = [hits |-> 0, misses |-> 0, sets |-> 0, deletes |-> 0]
    /\ backend_calls = [sql |-> 0, graphql |-> 0]
    /\ frame = None
    /\ last = None
    /\ clock = 0

-----------------------------------------------------------------------------
(* SpecExec: a caller issues executor calls one after the other, and       *)
(* entries expire.                                                          *)

\* the queries the caller of SpecExec issues
ExecTest == "simple_select"

\* whether a lookup of `query` that gets `get_reply` finds an entry
WillHit(query, use_cache, get_reply) ==
    /\ use_cache
    /\ get_reply = "reply"
    /\ redis[_generate_cache_key("query", query, None)] # None

\* The answers of the collaborators one execute_sql_query call consumes in the
\* current state: the Redis GET only with use_cache, its latency only on a hit,
\* the database only without a hit, the Redis SETEX only after rows came back,
\* the wall clock only on the error path.
SqlEnvs(inp, query, use_cache) ==
    {env \in [get_reply : inp.redis_replies \cup {Unused},
              retrieval_time : inp.retrieval_times \cup {0},
              db : DbReplies(inp) \cup {[raised |-> FALSE, unused |-> TRUE]},
              set_reply : inp.redis_replies \cup {Unused},
              wall_time : inp.fail_times \cup {0}] :
        LET hit == WillHit(query, use_cache, env.get_reply)
            called == ~hit /\ "unused" \notin DOMAIN env.db
        IN  /\ (env.get_reply = Unused) <=> ~use_cache
            /\ (env.retrieval_time \in inp.retrieval_times) <=> hit
            /\ ("unused" \in DOMAIN env.db) <=> hit
            /\ (env.set_reply = Unused) <=> ~(called /\ use_cache /\ ~env.db.raised)
            /\ (env.wall_time \in inp.fail_times) <=> (called /\ env.db.raised)}

\* The same for execute_graphql_query: the wall clock is read after every
\* answer or exception of the gateway, the Redis SETEX is issued only after a
\* 200 answer without query errors.
GraphqlEnvs(inp, query, use_cache) ==
    {env \in [get_reply : inp.redis_replies \cup {Unused},
              retrieval_time : inp.retrieval_times \cup {0},
              http : HttpReplies(inp) \cup {[raised |-> FALSE, unused |-> TRUE]},
              set_reply : inp.redis_replies \cup {Unused},
              wall_time : inp.times \cup inp.fail_times \cup {-1}] :
        LET hit == WillHit(query, use_cache, env.get_reply)
            called == ~hit /\ "unused" \notin DOMAIN env.http
            answered == called /\ ~env.http.raised /\ env.http.status = 200
            stored == answered /\ use_cache /\ "errors" \notin DOMAIN env.http.body
        IN  /\ (env.get_reply = Unused) <=> ~use_cache
            /\ (env.retrieval_time \in inp.retrieval_times) <=> hit
            /\ ("unused" \in DOMAIN env.http) <=> hit
            /\ (env.set_reply = Unused) <=> ~stored
            /\ (env.wall_time = -1) <=> hit
            /\ (env.wall_time \in inp.times) <=> answered
            /\ (env.wall_time \in inp.fail_times) <=> (called /\ ~answered)}

\* the answers the caller of SpecExec may get
ExecInputs ==
    [redis_replies |-> RedisReplies,
     retrieval_times |-> {4, 125, 1986},
     rows |-> {<<>>, <<"row">>},
     times |-> {0, 1000, 2000},
     fail_times |-> {1500}]

\* executor calls completed so far: each one either hit the cache or called a backend
CallsMade == backend_calls.sql + backend_calls.graphql + cache_stats.hits

\* the state after an executor call, and the record of the call
Completed(op, query, use_cache, env, r) ==
    /\ redis' = r.redis
    /\ cache_stats' = r.cache_stats
    /\ backend_calls' = r.backend_calls
    /\ last' = [op |-> op, query |-> query, use_cache |-> use_cache, env |-> env,
                raised |-> r.raised,
                ret |-> IF r.raised THEN None ELSE r.ret]
    /\ UNCHANGED <<clock, test_status, test_results, frame>>

CallExecuteSql ==
    \E use_cache \in BOOLEAN :
        \E env \in SqlEnvs(ExecInputs, test_queries[ExecTest].sql, use_cache) :
            /\ CallsMade < MaxCalls
            /\ Completed("execute_sql_query", test_queries[ExecTest].sql, use_cache, env,
                         execute_sql_query(ExecState, test_queries[ExecTest].sql,
                                           use_cache, env))

CallExecuteGraphql ==
    \E use_cache \in BOOLEAN :
        \E env \in GraphqlEnvs(ExecInputs, test_queries[ExecTest].graphql, use_cache) :
            /\ CallsMade < MaxCalls
            /\ Completed("execute_graphql_query", test_queries[ExecTest].graphql,
                         use_cache, env,
                         execute_graphql_query(ExecState, test_queries[ExecTest].graphql,
                                               use_cache, env))

\* Redis drops an entry when its ttl (set by setex) has run out
Expire ==
    \E k \in CacheKeys :
        /\ redis[k] # None
        /\ redis' = [redis EXCEPT ![k] = None]
            /\ last' = [op |-> "expire", key |-> k]
        /\ UNCHANGED <<clock, test_status, test_results, cache_stats, backend_calls, frame>>

NextExec == CallExecuteSql \/ CallExecuteGraphql \/ Expire

SpecExec == InitEngine /\ [][NextExec]_vars

-----------------------------------------------------------------------------
(* Spec: one invocation of run_single_test or of run_individual_test, from *)
(* a fresh engine or from one that has run before.  Each await of a run is *)
(* a step; `frame` holds the locals of the run, and with them `calls`, the  *)
(* executor and database calls the run has made so far.                     *)

\* iterations a caller may ask for
MaxIterations == 2

\* the test names a caller passes: a test definition, and a name that is none
RunNames == {"simple_select", "no_such_test"}

\* the answers a run may get
RunInputs ==
    [redis_replies |-> {"reply"},
     retrieval_times |-> {4, 125},
     rows |-> {<<"row">>},
     times |-> {0, 1000, 2000},
     fail_times |-> {1500}]

\* a record a run_individual_test of an earlier request left in the history
EarlierRecord ==
    [test_name |-> "customer_orders", iterations |-> 1, use_cache |-> FALSE,
     sql_time |-> <<1000, 1>>, graphql_time |-> <<2, 1>>,
     sql_times |-> <<(<<1000, 1>>)>>, graphql_times |-> <<(<<2, 1>>)>>,
     performance_ratio |-> <<1, 500>>]

\* the entry cache_query_result stores for rows or data d
Entry(d) == [data |-> d, ttl |-> CACHE_TTL_SECONDS]

\* the engine after construction, or after earlier cached runs of the first
\* test and one individual run: two entries, their two misses and writes
InitRun ==
    \/ InitEngine
    \/ /\ test_status = "idle"
       /\ test_results = <<EarlierRecord>>
       /\ redis = [k \in CacheKeys |->
                     IF k = _generate_cache_key("query", test_queries["simple_select"].sql, None)
                        \/ k = _generate_cache_key("query", test_queries["simple_select"].graphql, None)
                     THEN Entry(<<"row">>) ELSE None]
       /\ cache_stats = [hits |-> 0, misses |-> 2, sets |-> 2, deletes |-> 0]
       /\ backend_calls = [sql |-> 2, graphql |-> 2]
       /\ frame = None
       /\ last = None
       /\ clock = 0

\* the record of an executor call
CallRecord(op, query, use_cache, env, r) ==
    [op |-> op, query |-> query, use_cache |-> use_cache, env |-> env,
     raised |-> r.raised, ret |-> IF r.raised THEN None ELSE r.ret]

\* the locals of a run at its start
NewFrame(op, test_name, iterations, use_cache) ==
    [op |-> op, pc |-> IF iterations > 0 THEN "sql" ELSE "stats",
     test_name |-> test_name, iterations |-> iterations, use_cache |-> use_cache,
     i |-> 0, sql_results |-> <<>>, graphql_results |-> <<>>, calls |-> <<>>,
     exception |-> "none"]

\* the record of a call of a run, and of its end
Called(op, test_name, iterations, use_cache) ==
    [op |-> op, event |-> "call", test_name |-> test_name,
     iterations |-> iterations, use_cache |-> use_cache]

Raised(op, test_name, exception, f) ==
    [op |-> op, event |-> "raise", test_name |-> test_name, exception |-> exception,
     locals |-> f, ret |-> None]

Returned(op, test_name, f, ret) ==
    [op |-> op, event |-> "return", test_name |-> test_name, exception |-> "none",
     locals |-> f, ret |-> ret]

\* a loop that ends one iteration early
AfterIteration_one_short(f, this, next) ==
    IF f.i + 2 < f.iterations THEN [pc |-> this, i |-> f.i + 1] ELSE [pc |-> next, i |-> 0]

\* position after iteration i of a loop of `iterations` iterations
AfterIteration(f, this, next) ==
    IF f.i + 1 < f.iterations THEN [pc |-> this, i |-> f.i + 1] ELSE [pc |-> next, i |-> 0]

InRun(op, pc) == frame # None /\ frame.op = op /\ frame.pc = pc

(* run_single_test *)

RunSingleTest ==
    \E test_name \in RunNames, iterations \in 0..MaxIterations, use_cache \in BOOLEAN :
        /\ frame = None /\ last = None
        /\ LET e == run_single_test_entry(test_status, test_name)
           IN  /\ test_status' = e.test_status
               /\ IF e.raised
                  THEN /\ frame' = None
                       /\ last' = Raised("run_single_test", test_name, "ValueError", None)
                  ELSE /\ frame' = NewFrame("run_single_test", test_name, iterations, use_cache)
                       /\ last' = Called("run_single_test", test_name, iterations, use_cache)
        /\ UNCHANGED <<clock, test_results, redis, cache_stats, backend_calls>>

\* one iteration of the SQL loop: the call, the append, the pacing sleep
SingleSqlIter ==
    /\ InRun("run_single_test", "sql")
    /\ LET query == test_queries[frame.test_name].sql
       IN  \E env \in SqlEnvs(RunInputs, query, frame.use_cache) :
             LET r == execute_sql_query(ExecState, query, frame.use_cache, env)
                 c == CallRecord("execute_sql_query", query, frame.use_cache, env, r)
                 n == AfterIteration(frame, "sql", "graphql")
             IN  /\ redis' = r.redis
                 /\ cache_stats' = r.cache_stats
                 /\ backend_calls' = r.backend_calls
                 /\ IF r.raised
                    THEN /\ frame' = None
                         /\ last' = Raised("run_single_test", frame.test_name, "Exception",
                                           [frame EXCEPT !.calls = Append(@, c)])
                    ELSE /\ frame' = [frame EXCEPT !.sql_results = Append(@, r.ret),
                                                   !.calls = Append(@, c),
                                                   !.pc = n.pc, !.i = n.i]
                         /\ last' = last
    /\ UNCHANGED <<clock, test_status, test_results>>

\* one iteration of the GraphQL loop
SingleGraphqlIter ==
    /\ InRun("run_single_test", "graphql")
    /\ LET query == test_queries[frame.test_name].graphql
       IN  \E env \in GraphqlEnvs(RunInputs, query, frame.use_cache) :
             LET r == execute_graphql_query(ExecState, query, frame.use_cache, env)
                 c == CallRecord("execute_graphql_query", query, frame.use_cache, env, r)
                 n == AfterIteration(frame, "graphql", "stats")
             IN  /\ redis' = r.redis
                 /\ cache_stats' = r.cache_stats
                 /\ backend_calls' = r.backend_calls
                 /\ IF r.raised
                    THEN /\ frame' = None
                         /\ last' = Raised("run_single_test", frame.test_name, "Exception",
                                           [frame EXCEPT !.calls = Append(@, c)])
                    ELSE /\ frame' = [frame EXCEPT !.graphql_results = Append(@, r.ret),
                                                   !.calls = Append(@, c),
                                                   !.pc = n.pc, !.i = n.i]
                         /\ last' = last
    /\ UNCHANGED <<clock, test_status, test_results>>

\* the statistics, the comparison and the return
SingleFinish ==
    /\ InRun("run_single_test", "stats")
    /\ LET r == SingleResult(frame)
       IN  last' = IF r.raised
                   THEN Raised("run_single_test", frame.test_name, r.exception, frame)
                   ELSE Returned("run_single_test", frame.test_name, frame, r.ret)
    /\ frame' = None
    /\ UNCHANGED <<clock, test_status, test_results, redis, cache_stats, backend_calls>>

(* run_individual_test.  Its two lists hold fractions: the SQL times as     *)
(* measured (ms), the GraphQL times divided by 1000.                        *)

\* sum(xs) of fractions whose denominators divide 1000
FracSum(xs) == Frac(SumSeq([i \in DOMAIN xs |-> xs[i][1] * (1000 \div xs[i][2])]), 1000)

\* sum(xs) / len(xs)
FracAvg(xs) == Frac(FracSum(xs)[1], FracSum(xs)[2] * Len(xs))

\* the statistics block of run_individual_test: the record it appends
IndividualResult(f) ==
    LET avg_sql_time == FracAvg(f.sql_results)
        avg_graphql_time == FracAvg(f.graphql_results)
    IN  [test_name |-> f.test_name,
         iterations |-> f.iterations,
         use_cache |-> f.use_cache,
         sql_time |-> avg_sql_time,
         graphql_time |-> avg_graphql_time,
         sql_times |-> f.sql_results,
         graphql_times |-> f.graphql_results,
         performance_ratio |->
             IF avg_sql_time[1] > 0
             THEN Frac(avg_graphql_time[1] * avg_sql_time[2],
                       avg_graphql_time[2] * avg_sql_time[1])
             ELSE <<0, 1>>]

RunIndividualTest ==
    \E test_name \in RunNames, iterations \in 0..MaxIterations, use_cache \in BOOLEAN :
        /\ frame = None /\ last = None
        /\ LET e == run_individual_test_entry(test_status, test_name)
           IN  /\ test_status' = e.test_status
               /\ IF e.raised
                  THEN /\ frame' = None
                       /\ last' = Raised("run_individual_test", test_name, "ValueError", None)
                  ELSE /\ frame' = NewFrame("run_individual_test", test_name, iterations,
                                            use_cache)
                       /\ last' = Called("run_individual_test", test_name, iterations,
                                         use_cache)
        /\ UNCHANGED <<clock, test_results, redis, cache_stats, backend_calls>>

\* one iteration of the SQL loop: the database is called directly
IndividualSqlIter ==
    /\ InRun("run_individual_test", "sql")
    /\ \E db \in DbReplies(RunInputs) :
          LET c == [op |-> "execute_query_async",
                    query |-> test_queries[frame.test_name].sql,
                    env |-> [db |-> db], raised |-> db.raised]
              n == AfterIteration(frame, "sql", "graphql")
          IN  /\ backend_calls' = [backend_calls EXCEPT !.sql = @ + 1]
              /\ IF db.raised
                 THEN \* except Exception: status failed, then the finally block
                      /\ test_status' = "failed"
                      /\ frame' = [frame EXCEPT !.calls = Append(@, c), !.pc = "finally",
                                                !.exception = "Exception"]
                 ELSE /\ test_status' = test_status
                      /\ frame' = [frame EXCEPT
                                      !.sql_results = Append(@, <<db.execution_time, 1>>),
                                      !.calls = Append(@, c), !.pc = n.pc, !.i = n.i]
    /\ UNCHANGED <<clock, test_results, redis, cache_stats, last>>

\* one iteration of the GraphQL loop
IndividualGraphqlIter ==
    /\ InRun("run_individual_test", "graphql")
    /\ LET query == test_queries[frame.test_name].graphql
       IN  \E env \in GraphqlEnvs(RunInputs, query, frame.use_cache) :
             LET r == execute_graphql_query(ExecState, query, frame.use_cache, env)
                 c == CallRecord("execute_graphql_query", query, frame.use_cache, env, r)
                 n == AfterIteration(frame, "graphql", "stats")
             IN  /\ redis' = r.redis
                 /\ cache_stats' = r.cache_stats
                 /\ backend_calls' = r.backend_calls
                 /\ IF r.raised
                    THEN /\ test_status' = "failed"
                         /\ frame' = [frame EXCEPT !.calls = Append(@, c), !.pc = "finally",
                                                   !.exception = "Exception"]
                    ELSE /\ test_status' = test_status
                         /\ frame' = [frame EXCEPT
                                         !.graphql_results =
                                             Append(@, IF "error" \notin DOMAIN r.ret
                                                       THEN Frac(r.ret.execution_time_ms, 1000)
                                                       ELSE <<0, 1>>),
                                         !.calls = Append(@, c), !.pc = n.pc, !.i = n.i]
    /\ UNCHANGED <<clock, test_results, last>>

\* the averages, the append to the history, the terminal status
IndividualFinish ==
    /\ InRun("run_individual_test", "stats")
    /\ IF Len(frame.sql_results) = 0
       THEN \* ZeroDivisionError in sum(sql_results) / len(sql_results)
            /\ test_status' = "failed"
            /\ test_results' = test_results
            /\ frame' = [frame EXCEPT !.pc = "finally", !.exception = "ZeroDivisionError"]
       ELSE /\ test_status' = "completed"
            /\ test_results' = Append(test_results, IndividualResult(frame))
            /\ frame' = [frame EXCEPT !.pc = "finally"]
    /\ UNCHANGED <<clock, redis, cache_stats, backend_calls, last>>

\* the finally block: after the sleep of 2 s the status is idle again
IndividualFinally ==
    /\ InRun("run_individual_test", "finally")
    /\ test_status' = "idle"
    /\ frame' = None
    /\ last' = IF frame.exception # "none"
               THEN Raised("run_individual_test", frame.test_name, frame.exception, frame)
               ELSE Returned("run_individual_test", frame.test_name, frame,
                             test_results[Len(test_results)])
    /\ UNCHANGED <<clock, test_results, redis, cache_stats, backend_calls>>

Init == InitRun

Next ==
    \/ RunSingleTest
    \/ SingleSqlIter
    \/ SingleGraphqlIter
    \/ SingleFinish
    \/ RunIndividualTest
    \/ IndividualSqlIter
    \/ IndividualGraphqlIter
    \/ IndividualFinish
    \/ IndividualFinally

Spec == Init /\ [][Next]_vars

-----------------------------------------------------------------------------
(* SpecConcurrent: one invocation of run_concurrent_test.  The simulated   *)
(* users are coroutines of one event loop: a step of a user runs from one  *)
(* await to the next, and the clock advances between the steps.            *)

\* duration_seconds of the invocation
MaxDuration == 1

\* concurrent_users of the invocation
ConcurrentUsers == {0, 1, 2}

\* asyncio.sleep(random.uniform(0.5, 2.0)): the two ends, in half seconds
Delays == {1, 4}

\* the time a call of an executor takes, in the same unit: a call the
\* backend answers takes a second, a call that fails returns at once
CallTicks(ret) == IF "error" \in DOMAIN ret THEN 0 ELSE 2

\* the answers the calls of the users may get (they are made without cache)
ConcurrentInputs ==
    [redis_replies |-> {"reply"},
     retrieval_times |-> {125},
     rows |-> {<<"row">>},
     times |-> {1000},
     fail_times |-> {1500}]

\* the locals of run_concurrent_test after its entry; users[u] is the
\* coroutine user_simulation(u - 1)
NewConcurrentFrame(test_name, concurrent_users, duration_seconds, start_time) ==
    [op |-> "run_concurrent_test", pc |-> "gather",
     test_name |-> test_name, concurrent_users |-> concurrent_users,
     duration_seconds |-> duration_seconds, start_time |-> start_time,
     users |-> [u \in 1..concurrent_users |->
                   [pc |-> "loop", wake |-> start_time, user_results |-> <<>>,
                    calls |-> <<>>, exited_at |-> None]]]

\* a merge that takes the lists from the last user to the first
RECURSIVE Flatten_last_first(_)
Flatten_last_first(users) ==
    IF users = <<>> THEN <<>>
    ELSE Flatten_last_first(Tail(users)) \o Head(users).user_results

\* results.extend(user_results) for every user, in the order of the users
RECURSIVE Flatten(_)
Flatten(users) ==
    IF users = <<>> THEN <<>>
    ELSE Head(users).user_results \o Flatten(Tail(users))

\* a filter that keeps the results of the type that carry an error
RECURSIVE TimesOfType_with_errors(_, _)
TimesOfType_with_errors(results, t) ==
    IF results = <<>> THEN <<>>
    ELSE LET r == Head(results)
         IN  IF "query_type" \in DOMAIN r /\ r.query_type = t
             THEN <<r.execution_time_ms>> \o TimesOfType_with_errors(Tail(results), t)
             ELSE TimesOfType_with_errors(Tail(results), t)

\* [r["execution_time_ms"] for r in results
\*      if r.get("query_type") == t and "error" not in r]
RECURSIVE TimesOfType(_, _)
TimesOfType(results, t) ==
    IF results = <<>> THEN <<>>
    ELSE LET r == Head(results)
         IN  IF "query_type" \in DOMAIN r /\ r.query_type = t /\ "error" \notin DOMAIN r
             THEN <<r.execution_time_ms>> \o TimesOfType(Tail(results), t)
             ELSE TimesOfType(Tail(results), t)

\* a count of the failed SQL results only
ErrorCount_sql_only(results) ==
    Len(SelectSeq(results, LAMBDA r : "error" \in DOMAIN r /\ r.query_type = "sql"))

\* len([r for r in results if "error" in r])
RECURSIVE ErrorCount(_)
ErrorCount(results) ==
    IF results = <<>> THEN 0
    ELSE (IF "error" \in DOMAIN Head(results) THEN 1 ELSE 0) + ErrorCount(Tail(results))

\* the analysis and the record of run_concurrent_test: [raised, exception] or [raised, ret]
ConcurrentResult(f, results) ==
    LET sql_times == TimesOfType(results, "sql")
        graphql_times == TimesOfType(results, "graphql")
    IN  IF f.duration_seconds = 0
        THEN \* len(results) / duration_seconds
             [raised |-> TRUE, exception |-> "ZeroDivisionError"]
        ELSE [raised |-> FALSE,
              ret |-> [test_name |-> f.test_name \o "_concurrent",
                       concurrent_users |-> f.concurrent_users,
                       duration_seconds |-> f.duration_seconds,
                       total_requests |-> Len(results),
                       successful_requests |-> Len(sql_times) + Len(graphql_times),
                       error_rate_percent |->
                           IF results # <<>>
                           THEN Frac(100 * ErrorCount(results), Len(results))
                           ELSE <<0, 1>>,
                       requests_per_second |-> Frac(Len(results), f.duration_seconds),
                       sql_stats |-> _calculate_stats(sql_times),
                       graphql_stats |-> _calculate_stats(graphql_times)]]

\* the entry: the status, then the check of the name; the start time; the tasks
RunConcurrentTest ==
    \E test_name \in RunNames, concurrent_users \in ConcurrentUsers,
       duration_seconds \in 0..MaxDuration :
        /\ frame = None /\ last = None
        /\ LET e == run_concurrent_test_entry(test_status, test_name)
           IN  /\ test_status' = e.test_status
               /\ IF e.raised
                  THEN /\ frame' = None
                       /\ last' = Raised("run_concurrent_test", test_name, "ValueError", None)
                  ELSE /\ frame' = NewConcurrentFrame(test_name, concurrent_users,
                                                      duration_seconds, clock)
                       /\ last' = [op |-> "run_concurrent_test", event |-> "call",
                                   test_name |-> test_name,
                                   concurrent_users |-> concurrent_users,
                                   duration_seconds |-> duration_seconds]
        /\ UNCHANGED <<clock, test_results, redis, cache_stats, backend_calls>>

\* a loop condition that never ends the loop
DeadlinePassed_never(now, start_time, duration_seconds) == FALSE

\* a loop condition that lets a user make a call at the deadline itself
DeadlinePassed_late(now, start_time, duration_seconds) ==
    now - start_time > 2 * duration_seconds

\* not ((time.time() - start_time) < duration_seconds)
DeadlinePassed(now, start_time, duration_seconds) ==
    now - start_time >= 2 * duration_seconds

\* a user that counts only its successful results to choose its next call
NextIsSql_after_success(user_results) ==
    Len(SelectSeq(user_results, LAMBDA r : "error" \notin DOMAIN r)) % 2 = 0

\* len(user_results) % 2 == 0: the next call of the user is the SQL one
NextIsSql(user_results) == Len(user_results) % 2 = 0

\* a user at the head of its loop: it leaves at the deadline, else it makes
\* its next call, SQL and GraphQL in turn, and goes to sleep.  calls[i] holds
\* the times the i-th call of the user started and finished, exited_at the
\* time the user left its loop.
UserIteration ==
    /\ InRun("run_concurrent_test", "gather")
    /\ \E u \in DOMAIN frame.users :
        /\ frame.users[u].pc = "loop"
        /\ clock >= frame.users[u].wake
        /\ IF DeadlinePassed(clock, frame.start_time, frame.duration_seconds)
           THEN /\ frame' = [frame EXCEPT !.users[u].pc = "done",
                                          !.users[u].exited_at = clock]
                /\ UNCHANGED <<redis, cache_stats, backend_calls, last>>
           ELSE LET sql == NextIsSql(frame.users[u].user_results)
                    query == IF sql THEN test_queries[frame.test_name].sql
                             ELSE test_queries[frame.test_name].graphql
                IN  \E env \in IF sql THEN SqlEnvs(ConcurrentInputs, query, FALSE)
                               ELSE GraphqlEnvs(ConcurrentInputs, query, FALSE),
                       delay \in Delays :
                      LET r == IF sql THEN execute_sql_query(ExecState, query, FALSE, env)
                               ELSE execute_graphql_query(ExecState, query, FALSE, env)
                          ticks == IF r.raised THEN 0 ELSE CallTicks(r.ret)
                      IN  /\ redis' = r.redis
                          /\ cache_stats' = r.cache_stats
                          /\ backend_calls' = r.backend_calls
                          /\ IF r.raised
                             THEN /\ frame' = None
                                  /\ last' = Raised("run_concurrent_test", frame.test_name,
                                                    "Exception", frame)
                             ELSE /\ frame' =
                                       [frame EXCEPT
                                          !.users[u].user_results =
                                              Append(@, r.ret @@ [user_id |-> u - 1]),
                                          !.users[u].calls =
                                              Append(@, [started |-> clock,
                                                         finished |-> clock + ticks]),
                                          !.users[u].wake = clock + ticks + delay]
                                  /\ last' = last
    /\ UNCHANGED <<clock, test_status, test_results>>

\* time passes while a user has a deadline or a wake-up ahead
Tick ==
    /\ InRun("run_concurrent_test", "gather")
    /\ \E u \in DOMAIN frame.users :
          /\ frame.users[u].pc = "loop"
          /\ \/ clock < frame.users[u].wake
             \/ clock - frame.start_time < 2 * frame.duration_seconds
    /\ clock' = clock + 1
    /\ UNCHANGED <<test_status, test_results, redis, cache_stats, backend_calls, frame, last>>

\* gather has every list: the flattening, the status, the analysis, the
\* return; the locals of the ended run hold the flat list `results`
ConcurrentFinish ==
    /\ InRun("run_concurrent_test", "gather")
    /\ \A u \in DOMAIN frame.users : frame.users[u].pc = "done"
    /\ LET results == Flatten(frame.users)
           r == ConcurrentResult(frame, results)
       IN  last' = IF r.raised
                   THEN Raised("run_concurrent_test", frame.test_name, r.exception,
                               frame @@ [results |-> results])
                   ELSE Returned("run_concurrent_test", frame.test_name,
                                 frame @@ [results |-> results], r.ret)
    /\ test_status' = "idle"
    /\ frame' = None
    /\ UNCHANGED <<clock, test_results, redis, cache_stats, backend_calls>>

InitConcurrent == InitRun

NextConcurrent ==
    \/ RunConcurrentTest
    \/ UserIteration
    \/ Tick
    \/ ConcurrentFinish

SpecConcurrent == InitConcurrent /\ [][NextConcurrent]_vars

-----------------------------------------------------------------------------
(* SpecStats: _calculate_stats applied to one sample.  The function does    *)
(* not depend on the unit: the samples here are whole milliseconds.         *)

\* length of the short samples
MaxSample == 3

\* the values of the short samples
SampleValues == {10, 20, 25, 30}

\* the lengths around the two thresholds of the percentiles
RampLengths == {19, 20, 99, 100}

\* the samples: every short one, and 1, 2, .., n for the lengths of RampLengths
Samples ==
    UNION {[1..n -> SampleValues] : n \in 0..MaxSample}
        \cup {[i \in 1..n |-> i] : n \in RampLengths}

InitStats ==
    /\ test_status = "idle"
    /\ test_results = <<>>
    /\ redis = [k \in CacheKeys |-> None]
    /\ cache_stats = [hits |-> 0, misses |-> 0, sets |-> 0, deletes |-> 0]
    /\ backend_calls = [sql |-> 0, graphql |-> 0]
    /\ clock = 0
    /\ last = None
    /\ \E times \in Samples : frame = [op |-> "_calculate_stats", pc |-> "call", times |-> times]

CallCalculateStats ==
    /\ InRun("_calculate_stats", "call")
    /\ last' = [op |-> "_calculate_stats", event |-> "return", times |-> frame.times,
                ret |-> _calculate_stats(frame.times)]
    /\ frame' = None
    /\ UNCHANGED <<clock, test_status, test_results, redis, cache_stats, backend_calls>>

NextStats == CallCalculateStats

SpecStats == InitStats /\ [][NextStats]_vars

-----------------------------------------------------------------------------
(* SpecComprehensive: one invocation of run_comprehensive_tests.  A         *)
(* scenario of the matrix is one step: every call of a scenario gets the    *)
(* answers of one pattern, the pattern of the invocation or the pattern of  *)
(* a clock that reads 0.0 ms.  The users of a concurrent scenario make the  *)
(* same number of calls each; their interleavings are those of              *)
(* SpecConcurrent.                                                          *)

\* self.test_queries.keys(): the keys in the order of the dict literal
TestOrder ==
    <<"simple_select", "customer_orders", "order_aggregation", "complex_join",
      "pagination_test">>

\* the list `scenarios`
Scenarios ==
    <<[cache |-> FALSE, iterations |-> 10],
      [cache |-> TRUE, iterations |-> 10],
      [cache |-> FALSE, iterations |-> 50]>>

\* the names and the arguments of the loop over run_concurrent_test
ConcurrentScenarios ==
    [names |-> <<"simple_select", "customer_orders">>,
     concurrent_users |-> 20, duration_seconds |-> 60]

\* a matrix that runs the three scenarios of one test before the next test
Matrix_by_test ==
    [k \in 1..(Len(Scenarios) * Len(TestOrder)) |->
        [kind |-> "single",
         test_name |-> TestOrder[((k - 1) \div Len(Scenarios)) + 1],
         iterations |-> Scenarios[((k - 1) % Len(Scenarios)) + 1].iterations,
         use_cache |-> Scenarios[((k - 1) % Len(Scenarios)) + 1].cache]]
    \o [k \in 1..Len(ConcurrentScenarios.names) |->
        [kind |-> "concurrent",
         test_name |-> ConcurrentScenarios.names[k],
         concurrent_users |-> ConcurrentScenarios.concurrent_users,
         duration_seconds |-> ConcurrentScenarios.duration_seconds]]

\* the runs run_comprehensive_tests makes, in order: the loop over the
\* scenarios with the loop over the tests inside, then the concurrent runs
Matrix ==
    [k \in 1..(Len(Scenarios) * Len(TestOrder)) |->
        [kind |-> "single",
         test_name |-> TestOrder[((k - 1) % Len(TestOrder)) + 1],
         iterations |-> Scenarios[((k - 1) \div Len(TestOrder)) + 1].iterations,
         use_cache |-> Scenarios[((k - 1) \div Len(TestOrder)) + 1].cache]]
    \o [k \in 1..Len(ConcurrentScenarios.names) |->
        [kind |-> "concurrent",
         test_name |-> ConcurrentScenarios.names[k],
         concurrent_users |-> ConcurrentScenarios.concurrent_users,
         duration_seconds |-> ConcurrentScenarios.duration_seconds]]

\* the answers the calls of an invocation may get
ComprehensiveInputs ==
    [redis_replies |-> {"reply"},
     retrieval_times |-> {4, 125},
     rows |-> {<<"row">>},
     times |-> {0, 100},
     fail_times |-> {1500}]

\* a pattern: the answer every call to a collaborator gets
Patterns(inp) ==
    [db : DbReplies(inp), http : HttpReplies(inp),
     retrieval_time : inp.retrieval_times, graphql_time : inp.times,
     fail_time : inp.fail_times]

\* the clocks read 0.0 ms around the database call and the Redis GET
ZeroClockPattern ==
    [db |-> [raised |-> FALSE, rows |-> <<"row">>, execution_time |-> 0],
     http |-> [raised |-> FALSE, status |-> 200, body |-> [data |-> <<"row">>]],
     retrieval_time |-> 4, graphql_time |-> 100, fail_time |-> 1500]

\* what a call of an executor gets under pattern p
SqlEnvOf(p) ==
    [get_reply |-> "reply", retrieval_time |-> p.retrieval_time, db |-> p.db,
     set_reply |-> "reply", wall_time |-> p.fail_time]

GraphqlEnvOf(p) ==
    [get_reply |-> "reply", retrieval_time |-> p.retrieval_time, http |-> p.http,
     set_reply |-> "reply",
     wall_time |-> IF ~p.http.raised /\ p.http.status = 200
                   THEN p.graphql_time ELSE p.fail_time]

\* n calls of executor op, one after the other, from state st:
\* [raised, st, results]
RECURSIVE CallLoop(_, _, _, _, _, _)
CallLoop(op, st, query, use_cache, p, n) ==
    IF n = 0 THEN [raised |-> FALSE, st |-> st, results |-> <<>>]
    ELSE IF n = 1
    THEN Only({[raised |-> r.raised,
                st |-> [redis |-> r.redis, cache_stats |-> r.cache_stats,
                        backend_calls |-> r.backend_calls],
                results |-> IF r.raised THEN <<>> ELSE <<r.ret>>] :
               r \in {IF op = "execute_sql_query"
                      THEN execute_sql_query(st, query, use_cache, SqlEnvOf(p))
                      ELSE execute_graphql_query(st, query, use_cache, GraphqlEnvOf(p))}})
    ELSE Only({IF a.raised THEN a
               ELSE Only({[raised |-> b.raised, st |-> b.st,
                           results |-> a.results \o b.results] :
                          b \in {CallLoop(op, a.st, query, use_cache, p, n - (n \div 2))}}) :
               a \in {CallLoop(op, st, query, use_cache, p, n \div 2)}})

\* run_single_test(test_name, iterations, use_cache) under pattern p:
\* [raised, exception, st] or [raised, st, ret]
SingleRun(st, test_name, iterations, use_cache, p) ==
    IF run_single_test_entry("", test_name).raised
    THEN [raised |-> TRUE, exception |-> "ValueError", st |-> st]
    ELSE Only({
        IF sql.raised THEN [raised |-> TRUE, exception |-> "Exception", st |-> sql.st]
        ELSE Only({
            IF graphql.raised
            THEN [raised |-> TRUE, exception |-> "Exception", st |-> graphql.st]
            ELSE Only({
                IF r.raised
                THEN [raised |-> TRUE, exception |-> r.exception, st |-> graphql.st]
                ELSE [raised |-> FALSE, st |-> graphql.st, ret |-> r.ret] :
                r \in {SingleResult([test_name |-> test_name, iterations |-> iterations,
                                     use_cache |-> use_cache,
                                     sql_results |-> sql.results,
                                     graphql_results |-> graphql.results])}}) :
            graphql \in {CallLoop("execute_graphql_query", sql.st,
                                  test_queries[test_name].graphql, use_cache, p,
                                  iterations)}}) :
        sql \in {CallLoop("execute_sql_query", st, test_queries[test_name].sql,
                          use_cache, p, iterations)}})

\* the calls of one simulated user that makes c calls: SQL and GraphQL in
\* turn, without cache; every result gets the user_id: [raised, st, results]
RECURSIVE UserCalls(_, _, _, _, _, _)
UserCalls(st, test_name, p, user_id, done, c) ==
    IF done = c THEN [raised |-> FALSE, st |-> st, results |-> <<>>]
    ELSE Only({
        IF one.raised THEN one
        ELSE Only({[raised |-> rest.raised, st |-> rest.st,
                    results |-> <<one.results[1] @@ [user_id |-> user_id]>>
                                    \o rest.results] :
                   rest \in {UserCalls(one.st, test_name, p, user_id, done + 1, c)}}) :
        one \in {IF done % 2 = 0
                 THEN CallLoop("execute_sql_query", st,
                               test_queries[test_name].sql, FALSE, p, 1)
                 ELSE CallLoop("execute_graphql_query", st,
                               test_queries[test_name].graphql, FALSE, p, 1)}})

\* the users lo..hi of a concurrent run, c calls each, and their results
\* in the order of the users: [raised, st, results]
RECURSIVE UsersRun(_, _, _, _, _, _)
UsersRun(st, test_name, p, c, lo, hi) ==
    IF lo > hi THEN [raised |-> FALSE, st |-> st, results |-> <<>>]
    ELSE IF lo = hi THEN UserCalls(st, test_name, p, lo, 0, c)
    ELSE Only({
        IF a.raised THEN a
        ELSE Only({[raised |-> b.raised, st |-> b.st,
                    results |-> a.results \o b.results] :
                   b \in {UsersRun(a.st, test_name, p, c, ((lo + hi) \div 2) + 1, hi)}}) :
        a \in {UsersRun(st, test_name, p, c, lo, (lo + hi) \div 2)}})

\* calls each user of a concurrent scenario makes before the deadline
CallsPerUser == {0, 1, 2}

\* the record of the end of run_comprehensive_tests
ComprehensiveRaised(exception, f) ==
    [op |-> "run_comprehensive_tests", event |-> "raise", exception |-> exception,
     locals |-> f, ret |-> None]

ComprehensiveReturned(f) ==
    [op |-> "run_comprehensive_tests", event |-> "return", exception |-> "none",
     locals |-> f, ret |-> None]

\* the except clause of run_comprehensive_tests: the status, and whether the
\* exception leaves the coroutine
comprehensive_except_continue(status) == [test_status |-> status, raised |-> FALSE]

comprehensive_except(status) == [test_status |-> "failed", raised |-> TRUE]

\* the scenario at position k is over with `outcome`
Ran(f, outcome) == Append(f.runs, Matrix[f.k] @@ [outcome |-> outcome])

\* the step after a scenario that returned: the next one, or the end
AfterScenario(f) ==
    IF f.k < Len(Matrix)
    THEN [f EXCEPT !.k = @ + 1, !.pc = "matrix", !.runs = Ran(f, "returned"),
                   !.user_results = <<>>]
    ELSE [f EXCEPT !.pc = "done", !.runs = Ran(f, "returned"), !.user_results = <<>>]

\* the entry: the status, the new history, the list of scenarios
RunComprehensiveTests ==
    /\ frame = None /\ last = None
    /\ test_status' = "running_comprehensive"
    /\ test_results' = <<>>
    /\ \E p \in Patterns(ComprehensiveInputs) :
          frame' = [op |-> "run_comprehensive_tests", pc |-> "matrix", k |-> 1,
                    pattern |-> p, runs |-> <<>>, user_results |-> <<>>]
    /\ last' = [op |-> "run_comprehensive_tests", event |-> "call"]
    /\ UNCHANGED <<clock, redis, cache_stats, backend_calls>>

\* one run_single_test of the matrix and the append of its record, or the
\* except clause
ComprehensiveSingle ==
    /\ InRun("run_comprehensive_tests", "matrix")
    /\ Matrix[frame.k].kind = "single"
    /\ \E p \in {frame.pattern, ZeroClockPattern} :
          LET sc == Matrix[frame.k]
              r == SingleRun(ExecState, sc.test_name, sc.iterations, sc.use_cache, p)
              x == comprehensive_except(test_status)
          IN  /\ redis' = r.st.redis
              /\ cache_stats' = r.st.cache_stats
              /\ backend_calls' = r.st.backend_calls
              /\ IF ~r.raised
                 THEN /\ test_results' = Append(test_results, r.ret)
                      /\ frame' = AfterScenario(frame)
                      /\ UNCHANGED <<test_status, last>>
                 ELSE /\ test_status' = x.test_status
                      /\ test_results' = test_results
                      /\ IF x.raised
                         THEN /\ frame' = None
                              /\ last' = ComprehensiveRaised(r.exception,
                                             [frame EXCEPT !.runs = Ran(frame, "raised")])
                         ELSE /\ frame' = [AfterScenario(frame) EXCEPT
                                              !.runs = Ran(frame, "raised")]
                              /\ last' = last
    /\ UNCHANGED clock

\* run_concurrent_test of the matrix, to its gather
ComprehensiveConcurrentEnter ==
    /\ InRun("run_comprehensive_tests", "matrix")
    /\ Matrix[frame.k].kind = "concurrent"
    /\ LET e == run_concurrent_test_entry(test_status, Matrix[frame.k].test_name)
           x == comprehensive_except(e.test_status)
       IN  IF ~e.raised
           THEN /\ test_status' = e.test_status
                /\ frame' = [frame EXCEPT !.pc = "users"]
                /\ last' = last
           ELSE /\ test_status' = x.test_status
                /\ IF x.raised
                   THEN /\ frame' = None
                        /\ last' = ComprehensiveRaised("ValueError",
                                       [frame EXCEPT !.runs = Ran(frame, "raised")])
                   ELSE /\ frame' = [AfterScenario(frame) EXCEPT
                                        !.runs = Ran(frame, "raised")]
                        /\ last' = last
    /\ UNCHANGED <<clock, test_results, redis, cache_stats, backend_calls>>

\* the users of the concurrent run make their calls, to the deadline
ComprehensiveUsers ==
    /\ InRun("run_comprehensive_tests", "users")
    /\ \E c \in CallsPerUser :
          LET sc == Matrix[frame.k]
              r == UsersRun(ExecState, sc.test_name, frame.pattern, c,
                            0, sc.concurrent_users - 1)
              x == comprehensive_except(test_status)
          IN  /\ redis' = r.st.redis
              /\ cache_stats' = r.st.cache_stats
              /\ backend_calls' = r.st.backend_calls
              /\ IF ~r.raised
                 THEN /\ frame' = [frame EXCEPT !.pc = "gather", !.user_results = r.results]
                      /\ UNCHANGED <<test_status, last>>
                 ELSE /\ test_status' = x.test_status
                      /\ IF x.raised
                         THEN /\ frame' = None
                              /\ last' = ComprehensiveRaised("Exception",
                                             [frame EXCEPT !.runs = Ran(frame, "raised")])
                         ELSE /\ frame' = [AfterScenario(frame) EXCEPT
                                              !.runs = Ran(frame, "raised")]
                              /\ last' = last
    /\ clock' = clock + 2 * Matrix[frame.k].duration_seconds
    /\ UNCHANGED test_results

\* the end of the concurrent run: its status, its record; the append
ComprehensiveConcurrentLeave ==
    /\ InRun("run_comprehensive_tests", "gather")
    /\ LET sc == Matrix[frame.k]
           r == ConcurrentResult(sc, frame.user_results)
           x == comprehensive_except("idle")
       IN  IF ~r.raised
           THEN /\ test_status' = "idle"
                /\ test_results' = Append(test_results, r.ret)
                /\ frame' = AfterScenario(frame)
                /\ last' = last
           ELSE /\ test_status' = x.test_status
                /\ test_results' = test_results
                /\ IF x.raised
                   THEN /\ frame' = None
                        /\ last' = ComprehensiveRaised(r.exception,
                                       [frame EXCEPT !.runs = Ran(frame, "raised")])
                   ELSE /\ frame' = [AfterScenario(frame) EXCEPT
                                        !.runs = Ran(frame, "raised")]
                        /\ last' = last
    /\ UNCHANGED <<clock, redis, cache_stats, backend_calls>>

\* after the two loops: the status, the return
ComprehensiveFinish ==
    /\ InRun("run_comprehensive_tests", "done")
    /\ test_status' = "completed"
    /\ frame' = None
    /\ last' = ComprehensiveReturned(frame)
    /\ UNCHANGED <<clock, test_results, redis, cache_stats, backend_calls>>

InitComprehensive == InitRun

NextComprehensive ==
    \/ RunComprehensiveTests
    \/ ComprehensiveSingle
    \/ ComprehensiveConcurrentEnter
    \/ ComprehensiveUsers
    \/ ComprehensiveConcurrentLeave
    \/ ComprehensiveFinish

SpecComprehensive == InitComprehensive /\ [][NextComprehensive]_vars

-----------------------------------------------------------------------------
(* CacheManager on its own: lookups, writes, warming and statistics, in     *)
(* any order.  `last` describes the last call; last.seq counts the calls.   *)

\* calls of the cache manager in one behaviour of SpecCache
MaxCacheCalls == 2

\* n / d rounded to the nearest integer, an exact tie to the even one
RoundDiv(n, d) ==
    LET q == n \div d
        r == n % d
    IN  IF 2 * r < d THEN q
        ELSE IF 2 * r > d THEN q + 1
        ELSE IF q % 2 = 0 THEN q ELSE q + 1

\* round(hits / total_requests * 100, 2) if total_requests > 0, else 0: the
\* percentage as a fraction in lowest terms
HitRate(stats) ==
    LET total_requests == stats.hits + stats.misses
    IN  IF total_requests > 0
        THEN Frac(RoundDiv(stats.hits * 10000, total_requests), 100)
        ELSE <<0, 1>>

\* get_cache_stats: the dict it returns.  info is what redis.info("memory")
\* answers: [raised] or [raised, fields]
get_cache_stats(stats, info) ==
    IF info.raised
    THEN \* except Exception: return self.cache_stats
         stats
    ELSE [hits |-> stats.hits, misses |-> stats.misses, sets |-> stats.sets,
          deletes |-> stats.deletes,
          hit_rate_percent |-> HitRate(stats),
          memory_used_bytes |->
              IF "used_memory" \in DOMAIN info.fields THEN info.fields.used_memory ELSE 0,
          memory_used_human |->
              IF "used_memory_human" \in DOMAIN info.fields
              THEN info.fields.used_memory_human ELSE "0B",
          keyspace_hits |->
              IF "keyspace_hits" \in DOMAIN info.fields THEN info.fields.keyspace_hits ELSE 0,
          keyspace_misses |->
              IF "keyspace_misses" \in DOMAIN info.fields
              THEN info.fields.keyspace_misses ELSE 0]

\* the entry warm_cache stores
WarmEntry == [warmed |-> TRUE]

\* a warm_cache that derives its keys in the namespace of the query cache
RECURSIVE warm_cache_query_key(_, _, _)
warm_cache_query_key(store, queries, replies) ==
    IF queries = <<>>
    THEN [redis |-> store, ret |-> [warmed |-> 0, failed |-> 0, total |-> 0]]
    ELSE LET query_info == Head(queries)
             params == IF "params" \in DOMAIN query_info THEN query_info.params ELSE PyList(<<>>)
             ok == "query" \in DOMAIN query_info /\ Head(replies) = "reply"
             rest == warm_cache_query_key(
                         IF ok THEN [store EXCEPT
                                       ![_generate_cache_key("query", query_info.query, params)]
                                           = WarmEntry]
                         ELSE store,
                         Tail(queries), Tail(replies))
         IN  [redis |-> rest.redis,
              ret |-> [warmed |-> rest.ret.warmed + (IF ok THEN 1 ELSE 0),
                       failed |-> rest.ret.failed + (IF ok THEN 0 ELSE 1),
                       total |-> rest.ret.total + 1]]

\* warm_cache: [redis, ret].  queries is the list of query_info dicts,
\* replies[i] what Redis answers to the SETEX of the i-th one
RECURSIVE warm_cache(_, _, _)
warm_cache(store, queries, replies) ==
    IF queries = <<>>
    THEN [redis |-> store, ret |-> [warmed |-> 0, failed |-> 0, total |-> 0]]
    ELSE LET query_info == Head(queries)
             params == IF "params" \in DOMAIN query_info THEN query_info.params ELSE PyList(<<>>)
             \* query_info["query"] raises KeyError, setex raises: both are caught
             ok == "query" \in DOMAIN query_info /\ Head(replies) = "reply"
             rest == warm_cache(
                         IF ok THEN [store EXCEPT
                                       ![_generate_cache_key("warm", query_info.query, params)]
                                           = WarmEntry]
                         ELSE store,
                         Tail(queries), Tail(replies))
         IN  [redis |-> rest.redis,
              ret |-> [warmed |-> rest.ret.warmed + (IF ok THEN 1 ELSE 0),
                       failed |-> rest.ret.failed + (IF ok THEN 0 ELSE 1),
                       total |-> rest.ret.total + 1]]

\* the queries and the params of the calls
CacheQueries == {test_queries["simple_select"].sql, test_queries["simple_select"].graphql}

CacheParams == {None, PyList(<<>>), PyList(<<1>>)}

\* the keys the cache manager can address with them
CacheManagerKeys ==
    {_generate_cache_key(p, q, params) :
        p \in {"query", "warm"}, q \in CacheQueries, params \in CacheParams}

\* the lists of query_info dicts given to warm_cache
WarmQueries ==
    LET infos == {[query |-> test_queries["simple_select"].sql],
                  [query |-> test_queries["simple_select"].graphql, params |-> PyList(<<1>>)]}
    IN  {<<>>} \cup {<<i>> : i \in infos} \cup {<<i, j>> : i \in infos, j \in infos}

\* what redis.info("memory") answers
InfoReplies ==
    {[raised |-> TRUE],
     [raised |-> FALSE, fields |-> [used_memory |-> 1024, used_memory_human |-> "1.00K"]]}

CacheCallsMade == IF last = None THEN 0 ELSE last.seq

\* a cache manager after construction, or after a miss, a write and a hit
\* on the first query, and one more miss
InitCache ==
    /\ test_status = "idle"
    /\ test_results = <<>>
    /\ backend_calls = [sql |-> 0, graphql |-> 0]
    /\ clock = 0
    /\ frame = None
    /\ last = None
    /\ \/ /\ redis = [k \in CacheManagerKeys |-> None]
          /\ cache_stats = [hits |-> 0, misses |-> 0, sets |-> 0, deletes |-> 0]
       \/ /\ redis = [k \in CacheManagerKeys |->
                        IF k = _generate_cache_key("query", test_queries["simple_select"].sql, None)
                        THEN Entry(<<"row">>) ELSE None]
          /\ cache_stats = [hits |-> 1, misses |-> 2, sets |-> 1, deletes |-> 0]

CallGetCachedQuery ==
    \E query \in CacheQueries, params \in CacheParams, reply \in RedisReplies :
        LET r == get_cached_query(redis, cache_stats, query, params, reply, 125)
        IN  /\ CacheCallsMade < MaxCacheCalls
            /\ cache_stats' = r.cache_stats
            /\ last' = [op |-> "get_cached_query", query |-> query, params |-> params,
                        reply |-> reply, ret |-> r.ret, seq |-> CacheCallsMade + 1]
            /\ UNCHANGED <<clock, test_status, test_results, redis, backend_calls, frame>>

CallCacheQueryResult ==
    \E query \in CacheQueries, params \in CacheParams, reply \in RedisReplies :
        LET r == cache_query_result(redis, cache_stats, query, <<"row">>, params, None, reply)
        IN  /\ CacheCallsMade < MaxCacheCalls
            /\ redis' = r.redis
            /\ cache_stats' = r.cache_stats
            /\ last' = [op |-> "cache_query_result", query |-> query, params |-> params,
                        reply |-> reply, ret |-> r.ret, seq |-> CacheCallsMade + 1]
            /\ UNCHANGED <<clock, test_status, test_results, backend_calls, frame>>

CallWarmCache ==
    \E queries \in WarmQueries :
        \E replies \in [DOMAIN queries -> RedisReplies] :
            LET r == warm_cache(redis, queries, replies)
            IN  /\ CacheCallsMade < MaxCacheCalls
                /\ redis' = r.redis
                /\ last' = [op |-> "warm_cache", queries |-> queries,
                            ret |-> r.ret, seq |-> CacheCallsMade + 1]
                /\ UNCHANGED <<clock, test_status, test_results, cache_stats,
                               backend_calls, frame>>

CallGetCacheStats ==
    \E info \in InfoReplies :
        /\ CacheCallsMade < MaxCacheCalls
        /\ last' = [op |-> "get_cache_stats", info |-> info,
                    ret |-> get_cache_stats(cache_stats, info), seq |-> CacheCallsMade + 1]
        /\ UNCHANGED <<clock, test_status, test_results, redis, cache_stats,
                       backend_calls, frame>>

\* the glob patterns given to invalidate_cache_pattern
CachePatterns == {"*", "query:*", "warm:*"}

CallInvalidateCachePattern ==
    \E pattern \in CachePatterns, keys_reply \in RedisReplies, delete_reply \in RedisReplies :
        LET r == invalidate_cache_pattern(redis, cache_stats, pattern, keys_reply,
                                          delete_reply)
        IN  /\ CacheCallsMade < MaxCacheCalls
            /\ redis' = r.redis
            /\ cache_stats' = r.cache_stats
            /\ last' = [op |-> "invalidate_cache_pattern", pattern |-> pattern,
                        keys_reply |-> keys_reply, delete_reply |-> delete_reply,
                        ret |-> r.ret, seq |-> CacheCallsMade + 1]
            /\ UNCHANGED <<clock, test_status, test_results, backend_calls, frame>>

\* the Redis database is shared: another client stores, under the key of the
\* first query, a string that is not the JSON text of a dict
OtherClientSet ==
    LET k == _generate_cache_key("query", test_queries["simple_select"].sql, None)
    IN  /\ redis[k] # Undecodable
        /\ redis' = [redis EXCEPT ![k] = Undecodable]
        /\ UNCHANGED <<clock, test_status, test_results, cache_stats, backend_calls,
                       frame, last>>

NextCache ==
    \/ CallGetCachedQuery
    \/ CallCacheQueryResult
    \/ CallWarmCache
    \/ CallGetCacheStats
    \/ CallInvalidateCachePattern
    \/ OtherClientSet

SpecCache == InitCache /\ [][NextCache]_vars

-----------------------------------------------------------------------------
(* Two execute_sql_query calls in one event loop.  A call gives up the      *)
(* loop at each await: the Redis GET of the lookup, the database call, the  *)
(* Redis SETEX of the write.  frame.callers[c] holds the locals of call c   *)
(* and, for the properties, the step at which it looked up and wrote.       *)

\* the queries and the answers of the two calls
RaceQueries == {test_queries["simple_select"].sql, test_queries["customer_orders"].sql}

RaceInputs ==
    [redis_replies |-> RedisReplies,
     retrieval_times |-> {125},
     rows |-> {<<"row">>},
     times |-> {1000},
     fail_times |-> {1500}]

\* the locals of a call at its first statement
NewCaller(query, use_cache) ==
    [pc |-> IF use_cache THEN "lookup" ELSE "backend",
     query |-> query, use_cache |-> use_cache,
     result |-> None, ret |-> None,
     looked_up |-> 0, missed |-> FALSE, wrote |-> 0]

\* both calls are made
RaceStart ==
    /\ frame = None /\ last = None
    /\ \E q1 \in RaceQueries, q2 \in RaceQueries, u1 \in BOOLEAN, u2 \in BOOLEAN :
          frame' = [op |-> "execute_sql_query", pc |-> "calls", step |-> 0,
                    start |-> ExecState,
                    callers |-> <<NewCaller(q1, u1), NewCaller(q2, u2)>>]
    /\ UNCHANGED <<clock, test_status, test_results, redis, cache_stats,
                   backend_calls, last>>

\* await self.cache_manager.get_cached_query(query), and the return of a hit
RaceLookup ==
    /\ InRun("execute_sql_query", "calls")
    /\ \E c \in DOMAIN frame.callers, reply \in RaceInputs.redis_replies,
          retrieval_time \in RaceInputs.retrieval_times :
          LET f == frame.callers[c]
              look == get_cached_query(redis, cache_stats, f.query, None,
                                       reply, retrieval_time)
          IN  /\ f.pc = "lookup"
              /\ cache_stats' = look.cache_stats
              /\ frame' =
                   [frame EXCEPT
                      !.step = @ + 1,
                      !.callers[c] =
                          IF look.ret # None
                          THEN [f EXCEPT !.pc = "done", !.looked_up = frame.step + 1,
                                   !.ret = [data |-> look.ret.data,
                                            execution_time_ms |->
                                                look.ret.cache_retrieval_time_ms,
                                            row_count |-> Len(look.ret.data),
                                            cache_hit |-> TRUE,
                                            query_type |-> "sql"]]
                          ELSE [f EXCEPT !.pc = "backend", !.looked_up = frame.step + 1,
                                         !.missed = TRUE]]
    /\ UNCHANGED <<clock, test_status, test_results, redis, backend_calls, last>>

\* await self.db_manager.execute_query_async(query), the response, and the
\* except clause
RaceBackend ==
    /\ InRun("execute_sql_query", "calls")
    /\ \E c \in DOMAIN frame.callers, db \in DbReplies(RaceInputs),
          wall_time \in RaceInputs.fail_times :
          LET f == frame.callers[c]
              response == [data |-> db.rows,
                           execution_time_ms |-> db.execution_time,
                           row_count |-> Len(db.rows),
                           cache_hit |-> FALSE,
                           query_type |-> "sql"]
          IN  /\ f.pc = "backend"
              /\ backend_calls' = [backend_calls EXCEPT !.sql = @ + 1]
              /\ frame' =
                   [frame EXCEPT
                      !.step = @ + 1,
                      !.callers[c] =
                          IF db.raised
                          THEN [f EXCEPT !.pc = "done",
                                   !.ret = [error |-> "exception",
                                            execution_time_ms |-> wall_time,
                                            query_type |-> "sql"]]
                          ELSE IF f.use_cache
                          THEN [f EXCEPT !.pc = "write", !.result = db.rows,
                                         !.ret = response]
                          ELSE [f EXCEPT !.pc = "done", !.result = db.rows,
                                         !.ret = response]]
    /\ UNCHANGED <<clock, test_status, test_results, redis, cache_stats, last>>

\* await self.cache_manager.cache_query_result(query, result), and the return
RaceWrite ==
    /\ InRun("execute_sql_query", "calls")
    /\ \E c \in DOMAIN frame.callers, reply \in RaceInputs.redis_replies :
          LET f == frame.callers[c]
              w == cache_query_result(redis, cache_stats, f.query, f.result,
                                      None, None, reply)
          IN  /\ f.pc = "write"
              /\ redis' = w.redis
              /\ cache_stats' = w.cache_stats
              /\ frame' = [frame EXCEPT
                             !.step = @ + 1,
                             !.callers[c] = [f EXCEPT !.pc = "done",
                                               !.wrote = IF w.ret THEN frame.step + 1
                                                         ELSE 0]]
    /\ UNCHANGED <<clock, test_status, test_results, backend_calls, last>>

\* both calls have returned
RaceEnd ==
    /\ InRun("execute_sql_query", "calls")
    /\ \A c \in DOMAIN frame.callers : frame.callers[c].pc = "done"
    /\ last' = [op |-> "execute_sql_query", event |-> "return", locals |-> frame]
    /\ frame' = None
    /\ UNCHANGED <<clock, test_status, test_results, redis, cache_stats, backend_calls>>

InitRace == InitRun

NextRace ==
    \/ RaceStart
    \/ RaceLookup
    \/ RaceBackend
    \/ RaceWrite
    \/ RaceEnd

SpecRace == InitRace /\ [][NextRace]_vars

-----------------------------------------------------------------------------
(* The trigger endpoints.  POST run-test/{test_name} adds                   *)
(* run_individual_test and POST run-performance-tests adds                  *)
(* run_comprehensive_tests as a background task; each task is a coroutine   *)
(* of the one event loop and gives up the loop at its awaits only.  A step  *)
(* of a task is its code from one await to the next.  The properties of     *)
(* this specification are about who writes the status and the history, and  *)
(* when: a record is represented by the fields that tell which run made it, *)
(* the executor calls of a run by the await they end with.                  *)

\* POST requests in one behaviour of SpecTrigger
MaxRequests == 2

\* how an awaited run or call ends
Outcomes == {"returned", "raised"}

\* the record of the run described by sc, without its measurements
ScenarioRecord(sc) ==
    IF sc.kind = "concurrent"
    THEN [test_name |-> sc.test_name \o "_concurrent",
          concurrent_users |-> sc.concurrent_users,
          duration_seconds |-> sc.duration_seconds]
    ELSE [test_name |-> sc.test_name, iterations |-> sc.iterations,
          use_cache |-> sc.use_cache, kind |-> sc.kind]

\* the background tasks added so far; seen[t] is the status task t found
\* when it started
Tasks == frame.tasks

\* the endpoint run_performance_test, called with a test name and the
\* default iterations and use_cache: it adds the task and answers "started"
PostRunTest ==
    /\ Len(Tasks) < MaxRequests
    /\ frame' = [frame EXCEPT !.tasks =
                    Append(@, [kind |-> "individual", pc |-> "start", k |-> 0,
                               test_name |-> "simple_select", iterations |-> 10,
                               use_cache |-> FALSE, seen |-> None])]
    /\ UNCHANGED <<clock, test_status, test_results, redis, cache_stats,
                   backend_calls, last>>

\* the endpoint run_performance_tests: it adds the task and answers
\* "started".  A behaviour has at most one such request.
PostRunPerformanceTests ==
    /\ Len(Tasks) < MaxRequests
    /\ \A t \in DOMAIN Tasks : Tasks[t].kind # "comprehensive"
    /\ frame' = [frame EXCEPT !.tasks =
                    Append(@, [kind |-> "comprehensive", pc |-> "start", k |-> 0,
                               seen |-> None])]
    /\ UNCHANGED <<clock, test_status, test_results, redis, cache_stats,
                   backend_calls, last>>

\* run_individual_test from its first statement to its first await
TaskIndividualEnter ==
    \E t \in DOMAIN Tasks :
        /\ Tasks[t].kind = "individual" /\ Tasks[t].pc = "start"
        /\ LET e == run_individual_test_entry(test_status, Tasks[t].test_name)
           IN  /\ test_status' = e.test_status
               /\ frame' = [frame EXCEPT !.tasks[t].pc =
                                              IF e.raised THEN "done" ELSE "calls",
                                          !.tasks[t].seen = test_status]
        /\ UNCHANGED <<clock, test_results, redis, cache_stats, backend_calls, last>>

\* run_individual_test from the end of its last call to the sleep of its
\* finally clause: the append and the status, or the except clause
TaskIndividualFinish ==
    \E t \in DOMAIN Tasks, outcome \in Outcomes :
        /\ Tasks[t].kind = "individual" /\ Tasks[t].pc = "calls"
        /\ IF outcome = "returned"
           THEN /\ test_results' = Append(test_results, ScenarioRecord(Tasks[t]))
                /\ test_status' = "completed"
           ELSE /\ test_results' = test_results
                /\ test_status' = "failed"
        /\ frame' = [frame EXCEPT !.tasks[t].pc = "sleep"]
        /\ UNCHANGED <<clock, redis, cache_stats, backend_calls, last>>

\* run_individual_test after the sleep
TaskIndividualReset ==
    \E t \in DOMAIN Tasks :
        /\ Tasks[t].kind = "individual" /\ Tasks[t].pc = "sleep"
        /\ test_status' = "idle"
        /\ frame' = [frame EXCEPT !.tasks[t].pc = "done"]
        /\ UNCHANGED <<clock, test_results, redis, cache_stats, backend_calls, last>>

\* run_comprehensive_tests from its first statement to the first await of
\* its first run_single_test
TaskComprehensiveEnter ==
    \E t \in DOMAIN Tasks :
        /\ Tasks[t].kind = "comprehensive" /\ Tasks[t].pc = "start"
        /\ test_status' = "running_comprehensive"
        /\ test_results' = <<>>
        /\ frame' = [frame EXCEPT !.tasks[t].pc = "matrix", !.tasks[t].k = 1,
                                   !.tasks[t].seen = test_status]
        /\ UNCHANGED <<clock, redis, cache_stats, backend_calls, last>>

\* run_comprehensive_tests from the end of the run at position k to the
\* first await of the next run, or to its end: the status writes of a
\* run_concurrent_test that ends, the append, the status write of a
\* run_concurrent_test that starts, or the except clause
TaskComprehensiveNext ==
    \E t \in DOMAIN Tasks, outcome \in Outcomes :
        LET k == Tasks[t].k
            x == comprehensive_except(test_status)
        IN  /\ Tasks[t].kind = "comprehensive" /\ Tasks[t].pc = "matrix"
            /\ IF outcome = "raised"
               THEN /\ test_status' = x.test_status
                    /\ test_results' = test_results
                    /\ frame' = [frame EXCEPT !.tasks[t].pc = "done"]
               ELSE /\ test_results' = Append(test_results, ScenarioRecord(Matrix[k]))
                    /\ test_status' =
                          IF k = Len(Matrix) THEN "completed"
                          ELSE IF Matrix[k + 1].kind = "concurrent"
                          THEN run_concurrent_test_entry(test_status,
                                                         Matrix[k + 1].test_name).test_status
                          ELSE IF Matrix[k].kind = "concurrent" THEN "idle"
                          ELSE test_status
                    /\ frame' = IF k = Len(Matrix)
                                THEN [frame EXCEPT !.tasks[t].pc = "done"]
                                ELSE [frame EXCEPT !.tasks[t].k = k + 1]
            /\ UNCHANGED <<clock, redis, cache_stats, backend_calls, last>>

\* the application after start-up: no request yet
InitTrigger ==
    /\ test_status = "idle"
    /\ test_results = <<>>
    /\ redis = [k \in CacheKeys |-> None]
    /\ cache_stats = [hits |-> 0, misses |-> 0, sets |-> 0, deletes |-> 0]
    /\ backend_calls = [sql |-> 0, graphql |-> 0]
    /\ clock = 0
    /\ last = None
    /\ frame = [op |-> "app", pc |-> "serving", tasks |-> <<>>]

NextTrigger ==
    \/ PostRunTest
    \/ PostRunPerformanceTests
    \/ TaskIndividualEnter
    \/ TaskIndividualFinish
    \/ TaskIndividualReset
    \/ TaskComprehensiveEnter
    \/ TaskComprehensiveNext

SpecTrigger == InitTrigger /\ [][NextTrigger]_vars

-----------------------------------------------------------------------------
(* The results query.  GET /results reads the history the runs have         *)
(* appended to; a record of the history is represented by its test name and *)
(* its timestamp.                                                           *)

\* records appended to the history in one behaviour of SpecResults
MaxHistory == 3

\* xs[start:], for a start index of either sign
SliceFrom(xs, start) ==
    LET from == IF start < 0
                THEN (IF Len(xs) + start > 0 THEN Len(xs) + start ELSE 0)
                ELSE (IF start < Len(xs) THEN start ELSE Len(xs))
    IN  SubSeq(xs, from + 1, Len(xs))

\* the route get_test_results, on the list PerformanceAnalyzer.get_test_results
\* returns
get_test_results(history, limit) ==
    LET results == history
    IN  [results |-> IF Len(results) > limit THEN SliceFrom(results, 0 - limit)
                     ELSE results,
         total_results |-> Len(results),
         limit |-> limit]

\* the limits of the queries: none, fewer than, as many as and more than the records
Limits == 0..(MaxHistory + 1)

\* a run appends its record to the history
AppendRecord ==
    \E test_name \in {"simple_select", "customer_orders"} :
        /\ Len(test_results) < MaxHistory
        /\ test_results' = Append(test_results, [test_name |-> test_name, timestamp |-> clock])
        /\ clock' = clock + 1
        /\ UNCHANGED <<test_status, redis, cache_stats, backend_calls, frame, last>>

\* GET /results?limit=...
CallGetTestResults ==
    \E limit \in Limits :
        /\ last' = [op |-> "get_test_results", limit |-> limit, history |-> test_results,
                    ret |-> get_test_results(test_results, limit)]
        /\ UNCHANGED <<clock, test_status, test_results, redis, cache_stats,
                       backend_calls, frame>>

InitResults == InitEngine

NextResults == AppendRecord \/ CallGetTestResults

SpecResults == InitResults /\ [][NextResults]_vars

-----------------------------------------------------------------------------
(* Properties of the executors, checked under SpecExec.  In a step of      *)
(* SpecExec, last' describes the call the step made and `last` the         *)
(* operation before it.                                                     *)

ExecOps == {"execute_sql_query", "execute_graphql_query"}

IsExec(l) == l # None /\ l.op \in ExecOps

\* what the backend answered in call l
BackendReply(l) == IF l.op = "execute_sql_query" THEN l.env.db ELSE l.env.http

\* the call reached its backend (it was not answered from the cache)
BackendCalled(l) == "unused" \notin DOMAIN BackendReply(l)

\* the backend raised (timeout, unreachable, ...) or answered with a status other than 200
BackendFailed(l) ==
    /\ BackendCalled(l)
    /\ \/ BackendReply(l).raised
       \/ l.op = "execute_graphql_query" /\ BackendReply(l).status # 200

\* the backend answered with rows, or with 200 and no query errors
BackendSucceeded(l) ==
    /\ BackendCalled(l)
    /\ ~BackendReply(l).raised
    /\ l.op = "execute_graphql_query" =>
          BackendReply(l).status = 200 /\ "errors" \notin DOMAIN BackendReply(l).body

\* the data the backend answered with
BackendData(l) ==
    IF l.op = "execute_sql_query" THEN l.env.db.rows
    ELSE IF "data" \in DOMAIN l.env.http.body THEN l.env.http.body.data ELSE <<>>

\* the key get_cached_query looks call l up under
LookupKey(l) == _generate_cache_key("query", l.query, None)

\* the executor of call l, applied to state st and answers env
ExecOf(l, st, env) ==
    IF l.op = "execute_sql_query"
    THEN execute_sql_query(st, l.query, l.use_cache, env)
    ELSE execute_graphql_query(st, l.query, l.use_cache, env)

\* C4: an executor call never raises; whatever the cache and the backend
\* answered it returns a record, and the record has the error field exactly
\* when the backend raised or answered with a status other than 200.
C4_ExecutorsNeverRaise ==
    IsExec(last) =>
        /\ ~last.raised
        /\ last.ret # None
        /\ {"execution_time_ms", "query_type"} \subseteq DOMAIN last.ret
        /\ ("error" \in DOMAIN last.ret) <=> BackendFailed(last)

\* a call whose lookup failed in Redis and whose backend failed too
C4_Witness ==
    /\ IsExec(last)
    /\ last.use_cache /\ last.env.get_reply = "error"
    /\ BackendFailed(last)
    /\ "error" \in DOMAIN last.ret

\* the call returned data: no error field and no query errors
ReturnedData(l) ==
    ~l.raised /\ "error" \notin DOMAIN l.ret /\ "errors" \notin DOMAIN l.ret

\* C5: with use_cache and a working Redis, an execute that directly follows
\* a successful execute of the same query is answered from the cache
\* (cache_hit is true) and does not call the backend: the backend call
\* counters stay as the first call left them.
C5_SecondCallHitsCache ==
    [][(/\ IsExec(last) /\ IsExec(last')
        /\ last'.op = last.op /\ last'.query = last.query
        /\ last.use_cache /\ last'.use_cache
        /\ ReturnedData(last)
        /\ last.env.get_reply = "reply" /\ last.env.set_reply # "error"
        /\ last'.env.get_reply = "reply")
       => (/\ ~last'.raised
           /\ "cache_hit" \in DOMAIN last'.ret
           /\ last'.ret.cache_hit = TRUE
           /\ backend_calls' = backend_calls)]_vars

\* the second of two identical cached calls: one backend call, one write, one hit
C5_Witness ==
    /\ IsExec(last) /\ last.op = "execute_sql_query" /\ last.use_cache
    /\ "cache_hit" \in DOMAIN last.ret /\ last.ret.cache_hit
    /\ backend_calls = [sql |-> 1, graphql |-> 0]
    /\ cache_stats = [hits |-> 1, misses |-> 1, sets |-> 1, deletes |-> 0]

\* C6: a call with use_cache that missed writes to the cache only after the
\* backend succeeded, and then under the key it looked up; a failed backend
\* call leaves the cache contents and the sets counter unchanged; a failed
\* write leaves them unchanged too and the caller still gets the backend's data.
C6_WriteOnlyAfterSuccess ==
    [][(IsExec(last') /\ last'.use_cache /\ BackendCalled(last'))
       => (/\ BackendFailed(last') =>
                redis' = redis /\ cache_stats'.sets = cache_stats.sets
           /\ (redis' # redis \/ cache_stats'.sets # cache_stats.sets) =>
                /\ BackendSucceeded(last')
                /\ last'.env.set_reply = "reply"
                /\ cache_stats'.sets = cache_stats.sets + 1
                /\ \A k \in CacheKeys : k # LookupKey(last') => redis'[k] = redis[k]
           /\ (BackendSucceeded(last') /\ last'.env.set_reply = "reply") =>
                /\ redis'[LookupKey(last')] # None
                /\ redis'[LookupKey(last')].data = BackendData(last')
           /\ (BackendSucceeded(last') /\ last'.env.set_reply = "error") =>
                /\ ~last'.raised
                /\ "error" \notin DOMAIN last'.ret
                /\ last'.ret.data = BackendData(last')
                /\ last'.ret.cache_hit = FALSE
                /\ redis' = redis /\ cache_stats'.sets = cache_stats.sets)]_vars

\* a miss, a successful backend call, and a cache write that failed
C6_Witness ==
    /\ IsExec(last) /\ last.use_cache
    /\ BackendSucceeded(last)
    /\ last.env.set_reply = "error"
    /\ "error" \notin DOMAIN last.ret
    /\ cache_stats.sets = 0

\* C7: when the Redis GET of a lookup fails, the lookup counts one miss and
\* no hit, the executor calls its backend, and the call returns (it does not
\* raise) what it returns on an ordinary miss with the same backend answer,
\* with the same counters.
C7_CacheErrorIsMiss ==
    [][(IsExec(last') /\ last'.use_cache /\ last'.env.get_reply = "error")
       => LET miss == ExecOf(last',
                             [redis |-> [redis EXCEPT ![LookupKey(last')] = None],
                              cache_stats |-> cache_stats,
                              backend_calls |-> backend_calls],
                             [last'.env EXCEPT !.get_reply = "reply"])
          IN  /\ ~last'.raised
              /\ cache_stats'.misses = cache_stats.misses + 1
              /\ cache_stats'.hits = cache_stats.hits
              /\ BackendCalled(last')
              /\ backend_calls'.sql + backend_calls'.graphql
                    = backend_calls.sql + backend_calls.graphql + 1
              /\ last'.ret = miss.ret
              /\ cache_stats' = miss.cache_stats
              /\ backend_calls' = miss.backend_calls]_vars

\* a lookup that failed although the entry was there, answered by the backend
C7_Witness ==
    /\ IsExec(last) /\ last.use_cache
    /\ last.env.get_reply = "error"
    /\ redis[LookupKey(last)] # None
    /\ cache_stats.sets = 1 /\ cache_stats.misses = 2
    /\ BackendFailed(last)

-----------------------------------------------------------------------------
(* Properties of the runs, checked under Spec.                              *)

\* the locals of the run_single_test in progress or just ended, or None
SingleLocals ==
    IF frame # None /\ frame.op = "run_single_test" THEN frame
    ELSE IF last # None /\ last.op = "run_single_test" /\ last.event # "call"
    THEN last.locals
    ELSE None

\* a run_single_test has returned its record
SingleReturned == last # None /\ last.op = "run_single_test" /\ last.event = "return"

\* a run_single_test on a known test has ended, by return or by an exception
SingleEnded ==
    /\ last # None /\ last.op = "run_single_test"
    /\ last.event \in {"return", "raise"}
    /\ last.locals # None

\* the elapsed time call c measured: the backend's, or the lookup's rounded latency
MeasuredTime(c) ==
    IF ~BackendCalled(c) THEN Round2(c.env.retrieval_time)
    ELSE IF c.op = "execute_sql_query" THEN c.env.db.execution_time
    ELSE c.env.wall_time

\* the calls of cs whose backend did not fail
RECURSIVE Unfailed(_)
Unfailed(cs) ==
    IF cs = <<>> THEN <<>>
    ELSE IF BackendFailed(Head(cs)) THEN Unfailed(Tail(cs))
    ELSE <<Head(cs)>> \o Unfailed(Tail(cs))

\* the mean of the times measured by the calls cs
MeasuredMean(cs) == Frac(SumSeq([i \in DOMAIN cs |-> MeasuredTime(cs[i])]), Len(cs))

\* the calls a run made to the relational and to the graph backend
SqlCalls(f) == SubSeq(f.calls, 1, Len(f.sql_results))
GraphqlCalls(f) == SubSeq(f.calls, Len(f.sql_results) + 1, Len(f.calls))

\* C1: an invocation of run_single_test or of run_individual_test with a
\* name that is no key of the test definitions raises ValueError in its
\* first step: no backend and no cache call is made, and the status and the
\* history are as they were.
C1_UnknownTestFailsFast ==
    [][(/\ frame = None /\ last = None /\ last' # None
        /\ last'.op \in {"run_single_test", "run_individual_test"}
        /\ last'.test_name \notin DOMAIN test_queries)
       => (/\ last'.event = "raise" /\ last'.exception = "ValueError"
           /\ frame' = None
           /\ test_status' = test_status
           /\ test_results' = test_results
           /\ redis' = redis
           /\ cache_stats' = cache_stats
           /\ backend_calls' = backend_calls)]_vars

\* run_individual_test has rejected an unknown name on an engine with a history
C1_Witness ==
    /\ last # None /\ last.op = "run_individual_test"
    /\ last.event = "raise" /\ last.exception = "ValueError"
    /\ last.test_name \notin DOMAIN test_queries
    /\ test_status = "idle" /\ test_results = <<EarlierRecord>>

\* C3: a run_single_test on a known test makes `iterations` executor calls
\* per backend whatever calls fail, the SQL calls first; every call adds one
\* result, an error result exactly when its backend failed; and the sample
\* behind each backend's statistics is the times of the calls that did not fail.
C3_FailuresDoNotAbortRun ==
    /\ SingleLocals # None =>
          LET f == SingleLocals
          IN  /\ Len(f.calls) = Len(f.sql_results) + Len(f.graphql_results)
              /\ \A i \in DOMAIN f.calls :
                    LET c == f.calls[i]
                        r == IF i <= Len(f.sql_results) THEN f.sql_results[i]
                             ELSE f.graphql_results[i - Len(f.sql_results)]
                    IN  /\ c.op = IF i <= Len(f.sql_results) THEN "execute_sql_query"
                                  ELSE "execute_graphql_query"
                        /\ ~c.raised /\ c.ret = r
                        /\ ("error" \in DOMAIN r) <=> BackendFailed(c)
              /\ f.graphql_results # <<>> => Len(f.sql_results) = f.iterations
    /\ SingleEnded =>
          /\ Len(last.locals.sql_results) = last.locals.iterations
          /\ Len(last.locals.graphql_results) = last.locals.iterations
    /\ SingleReturned =>
          LET f == last.locals
              sql_ok == Unfailed(SqlCalls(f))
              graphql_ok == Unfailed(GraphqlCalls(f))
          IN  /\ (last.ret.sql_stats = None) <=> (sql_ok = <<>>)
              /\ (last.ret.graphql_stats = None) <=> (graphql_ok = <<>>)
              /\ sql_ok # <<>> => last.ret.sql_stats.avg_ms = MeasuredMean(sql_ok)
              /\ graphql_ok # <<>> => last.ret.graphql_stats.avg_ms = MeasuredMean(graphql_ok)

\* a run of two iterations whose first SQL call failed and whose GraphQL calls all failed
C3_Witness ==
    /\ SingleReturned
    /\ last.locals.iterations = 2
    /\ "error" \in DOMAIN last.locals.sql_results[1]
    /\ "error" \notin DOMAIN last.locals.sql_results[2]
    /\ last.ret.sql_stats # None
    /\ last.ret.graphql_stats = None

\* C8: the elapsed time of an executor call answered from the cache is the
\* latency of its own Redis GET, rounded to hundredths of a ms, whatever the
\* backend call that filled the entry took; and it is with this value that
\* the call enters the sample of its backend in the run.
C8_HitReportsRetrievalLatency ==
    /\ SingleLocals # None =>
          \A i \in DOMAIN SingleLocals.calls :
              LET c == SingleLocals.calls[i]
              IN  ("cache_hit" \in DOMAIN c.ret /\ c.ret.cache_hit) =>
                      /\ ~BackendCalled(c)
                      /\ c.ret.execution_time_ms = Round2(c.env.retrieval_time)
    /\ SingleReturned =>
          LET sql_ok == Unfailed(SqlCalls(last.locals))
              graphql_ok == Unfailed(GraphqlCalls(last.locals))
          IN  /\ sql_ok # <<>> =>
                  /\ last.ret.sql_stats.avg_ms = MeasuredMean(sql_ok)
                  /\ last.ret.sql_stats.max_ms =
                        <<MaxSeq([i \in DOMAIN sql_ok |-> MeasuredTime(sql_ok[i])]), 1>>
              /\ graphql_ok # <<>> =>
                  /\ last.ret.graphql_stats.avg_ms = MeasuredMean(graphql_ok)
                  /\ last.ret.graphql_stats.max_ms =
                        <<MaxSeq([i \in DOMAIN graphql_ok |-> MeasuredTime(graphql_ok[i])]), 1>>

\* a cached run on a fresh engine: the backend took 2 ms to fill the entry,
\* the second call is a hit whose GET took 0.125 ms, reported as 0.12 ms
C8_Witness ==
    /\ SingleReturned
    /\ last.locals.use_cache /\ last.locals.iterations = 2
    /\ BackendCalled(last.locals.calls[1])
    /\ last.locals.sql_results[1].execution_time_ms = 2000
    /\ ~BackendCalled(last.locals.calls[2])
    /\ last.locals.calls[2].env.retrieval_time = 125
    /\ last.locals.sql_results[2].execution_time_ms = 120
    /\ last.ret.sql_stats.avg_ms = <<1060, 1>>

\* C9: the faster backend of a comparison is the one with the strictly
\* smaller average, and "sql" when the two averages are equal.
C9_TieResolvesToRelational ==
    (SingleReturned /\ "comparison" \in DOMAIN last.ret) =>
        LET c == last.ret.comparison
        IN  /\ FracLess(c.sql_avg_ms, c.graphql_avg_ms) => c.faster_option = "sql"
            /\ FracLess(c.graphql_avg_ms, c.sql_avg_ms) => c.faster_option = "graphql"
            /\ c.sql_avg_ms = c.graphql_avg_ms => c.faster_option = "sql"

\* a returned comparison of equal averages that names the graph backend
C9_Witness ==
    /\ SingleReturned /\ "comparison" \in DOMAIN last.ret
    /\ last.ret.comparison.sql_avg_ms = last.ret.comparison.graphql_avg_ms
    /\ last.ret.comparison.faster_option = "graphql"

\* C10: the record run_single_test returns has a comparison exactly when
\* each backend has at least one result without error.
C10_ComparisonIffBothSamples ==
    SingleReturned =>
        LET f == last.locals
        IN  ("comparison" \in DOMAIN last.ret) <=>
               /\ \E i \in DOMAIN f.sql_results : "error" \notin DOMAIN f.sql_results[i]
               /\ \E i \in DOMAIN f.graphql_results :
                     "error" \notin DOMAIN f.graphql_results[i]

\* a returned record without comparison: SQL results, but every GraphQL call failed
C10_Witness ==
    /\ SingleReturned
    /\ last.locals.iterations = 2
    /\ "comparison" \notin DOMAIN last.ret
    /\ last.ret.sql_stats # None
    /\ \A i \in 1..2 : "error" \in DOMAIN last.locals.graphql_results[i]

-----------------------------------------------------------------------------
(* Properties of run_concurrent_test, checked under SpecConcurrent.         *)

\* C2: an invocation of run_concurrent_test with a name that is no key of
\* the test definitions raises in its first step and changes nothing: the
\* status is the status before the call, no user is started and no backend
\* is called.
C2_UnknownTestLeavesStatus ==
    [][(/\ frame = None /\ last = None /\ last' # None
        /\ last'.op = "run_concurrent_test"
        /\ last'.test_name \notin DOMAIN test_queries)
       => (/\ last'.event = "raise" /\ last'.exception = "ValueError"
           /\ frame' = None
           /\ test_status' = test_status
           /\ backend_calls' = backend_calls)]_vars

\* the rejected invocation has left an idle engine in the status running_concurrent
C2_Witness ==
    /\ last # None /\ last.op = "run_concurrent_test"
    /\ last.event = "raise" /\ last.exception = "ValueError"
    /\ last.test_name \notin DOMAIN test_queries
    /\ frame = None
    /\ backend_calls = [sql |-> 0, graphql |-> 0]
    /\ test_status = "running_concurrent"

\* a run_concurrent_test has returned its record
ConcurrentReturned ==
    last # None /\ last.op = "run_concurrent_test" /\ last.event = "return"

\* C11: in the record of run_concurrent_test, as in the record of
\* run_single_test, the stats field of a backend without a successful result
\* holds no stats object: it is None, the value run_single_test puts there.
C11_EmptySampleStatsAbsent ==
    ConcurrentReturned =>
        LET results == Flatten(last.locals.users)
        IN  /\ TimesOfType(results, "sql") = <<>> => last.ret.sql_stats = None
            /\ TimesOfType(results, "graphql") = <<>> => last.ret.graphql_stats = None

\* a concurrent record whose calls were made and all failed on the SQL
\* side: its sql_stats is the empty dict
C11_Witness ==
    /\ ConcurrentReturned
    /\ last.ret.total_requests > 0
    /\ TimesOfType(Flatten(last.locals.users), "sql") = <<>>
    /\ last.ret.sql_stats = EmptyDict

\* the users of the run_concurrent_test in progress, or of the one that ended
ConcurrentUsersOfRun ==
    IF frame # None /\ frame.op = "run_concurrent_test" THEN frame.users
    ELSE IF last # None /\ last.op = "run_concurrent_test"
            /\ last.event \in {"return", "raise"} /\ last.locals # None
         THEN last.locals.users
    ELSE <<>>

ConcurrentMerged ==
    /\ last # None /\ last.op = "run_concurrent_test"
    /\ last.event \in {"return", "raise"}
    /\ last.locals # None

\* the number of results of the users before user u
ResultsBefore(users, u) == SumSeq([v \in 1..(u - 1) |-> Len(users[v].user_results)])

\* C22: the merged list of run_concurrent_test holds the list of user 0,
\* then the list of user 1, ..., each in the order of the user's calls:
\* the i-th result of user u is at position (results of the users before u)
\* + i, and total_requests is the sum of the lengths of the lists.
C22_MergeInWorkerOrder ==
    ConcurrentMerged =>
        LET users == last.locals.users
            results == last.locals.results
        IN  /\ Len(results) = ResultsBefore(users, Len(users) + 1)
            /\ \A u \in DOMAIN users :
                  \A i \in DOMAIN users[u].user_results :
                      results[ResultsBefore(users, u) + i] = users[u].user_results[i]
            /\ last.event = "return" => last.ret.total_requests = Len(results)

\* two users whose calls interleaved in time: the second call of the first
\* user started after the call of the second user, and is merged before it
C22_Witness ==
    /\ ConcurrentMerged
    /\ last.event = "return"
    /\ Len(last.locals.users) = 2
    /\ Len(last.locals.users[1].calls) = 2
    /\ Len(last.locals.users[2].calls) = 1
    /\ last.locals.users[1].calls[2].started > last.locals.users[2].calls[1].started
    /\ last.locals.results[2] = last.locals.users[1].user_results[2]
    /\ last.locals.results[2] # last.locals.users[2].user_results[1]
    /\ last.ret.total_requests = 3

\* C23: the error_rate_percent of a concurrent record is 100 times the
\* number of merged results that carry an error, over total_requests; it is
\* 0 when there is no result.
C23_ErrorRate ==
    ConcurrentReturned =>
        LET results == last.locals.results
            errored == Cardinality({i \in DOMAIN results : "error" \in DOMAIN results[i]})
            rate == last.ret.error_rate_percent
        IN  /\ last.ret.total_requests = Len(results)
            /\ rate[2] > 0
            /\ IF Len(results) = 0 THEN rate[1] = 0
               ELSE rate[1] * Len(results) = 100 * errored * rate[2]

\* a concurrent record of three calls of which two, one of them a GraphQL
\* call, failed
C23_Witness ==
    /\ ConcurrentReturned
    /\ last.ret.total_requests = 3
    /\ last.ret.error_rate_percent = <<200, 3>>
    /\ \E i \in DOMAIN last.locals.results :
          /\ "error" \in DOMAIN last.locals.results[i]
          /\ last.locals.results[i].query_type = "graphql"

\* a concurrent record without any request: no user was started
C23_WitnessNoRequest ==
    /\ ConcurrentReturned
    /\ last.ret.total_requests = 0
    /\ last.ret.error_rate_percent = <<0, 1>>

\* the deadline of a run_concurrent_test with locals f
Deadline(f) == f.start_time + 2 * f.duration_seconds

\* the locals of the run_concurrent_test in progress, or of the one that ended
ConcurrentLocals ==
    IF frame # None /\ frame.op = "run_concurrent_test" THEN frame
    ELSE last.locals

\* C24: every call of a user of run_concurrent_test started before the
\* deadline, and every call that started has its result in the list of the
\* user, and in the merged list once the run has merged, also when the call
\* finished after the deadline.
C24_NoCallStartsAfterDeadline ==
    ConcurrentUsersOfRun # <<>> =>
        /\ \A u \in DOMAIN ConcurrentUsersOfRun :
              /\ Len(ConcurrentUsersOfRun[u].calls) = Len(ConcurrentUsersOfRun[u].user_results)
              /\ \A i \in DOMAIN ConcurrentUsersOfRun[u].calls :
                    ConcurrentUsersOfRun[u].calls[i].started < Deadline(ConcurrentLocals)
        /\ ConcurrentMerged =>
              Len(last.locals.results)
                  = SumSeq([u \in DOMAIN ConcurrentUsersOfRun |->
                               Len(ConcurrentUsersOfRun[u].calls)])

\* a call that started before the deadline and finished after it; its
\* result is the last of the merged list
C24_Witness ==
    /\ ConcurrentMerged
    /\ last.event = "return"
    /\ Len(last.locals.users) = 1
    /\ Len(last.locals.users[1].calls) = 2
    /\ last.locals.users[1].calls[2].started < Deadline(last.locals)
    /\ last.locals.users[1].calls[2].finished > Deadline(last.locals)
    /\ last.locals.results[2] = last.locals.users[1].user_results[2]
    /\ "error" \notin DOMAIN last.locals.results[2]

\* C25: while a run_concurrent_test of a known test is in progress, its
\* users running or done, the status is running_concurrent; when it has
\* ended, every user has left its loop and the status is idle.
C25_StatusDuringConcurrentRun ==
    /\ (frame # None /\ frame.op = "run_concurrent_test")
          => test_status = "running_concurrent"
    /\ ConcurrentMerged
          => /\ test_status = "idle"
             /\ \A u \in DOMAIN last.locals.users : last.locals.users[u].pc = "done"

\* a run_concurrent_test in which one user has left its loop and the other
\* is asleep after a call
C25_Witness ==
    /\ frame # None /\ frame.op = "run_concurrent_test"
    /\ Len(frame.users) = 2
    /\ frame.users[1].pc = "done"
    /\ frame.users[2].pc = "loop"
    /\ frame.users[2].wake > clock
    /\ test_status = "running_concurrent"

\* a run_concurrent_test of two users has returned: the status is idle
C25_WitnessReturned ==
    /\ ConcurrentReturned
    /\ Len(last.locals.users) = 2
    /\ last.ret.total_requests > 0
    /\ test_status = "idle"

\* the longest a call and the sleep after it take
LongestRound ==
    CallTicks([query_type |-> "sql"])
        + (CHOOSE d \in Delays : \A e \in Delays : e <= d)

\* the users of locals f that are in their loop and, of them, those that
\* are not asleep at time t
InLoop(f) == {u \in DOMAIN f.users : f.users[u].pc = "loop"}
Awake(f, t) == {u \in InLoop(f) : f.users[u].wake <= t}

\* a measure of what is left of a run_concurrent_test: the time to the
\* latest exit of a user, and the users that have a step to take now
Remaining ==
    IF frame # None /\ frame.op = "run_concurrent_test"
    THEN (Len(frame.users) + 1) * (Deadline(frame) + LongestRound - clock)
             + Cardinality(Awake(frame, clock)) + Cardinality(InLoop(frame)) + 1
    ELSE 0

\* C26: a run_concurrent_test in progress always has a step to take, every
\* step brings it closer to its end, and the end is no later than one call
\* and one sleep after the deadline; when it has ended with at least one
\* user and a positive duration, the deadline has passed and every user left
\* its loop at or after the deadline and less than one call and one sleep
\* after it.
C26_ConcurrentRunTerminates ==
    /\ [](/\ (frame # None /\ frame.op = "run_concurrent_test")
                 => /\ \/ ENABLED ConcurrentFinish
                       \/ ENABLED Tick
                       \/ ENABLED UserIteration
                       \/ ENABLED RunConcurrentTest
                    /\ clock <= Deadline(frame) + LongestRound
          /\ (ConcurrentMerged /\ last.locals.duration_seconds > 0
                               /\ last.locals.users # <<>>)
                 => /\ clock >= Deadline(last.locals)
                    /\ \A u \in DOMAIN last.locals.users :
                          /\ last.locals.users[u].pc = "done"
                          /\ last.locals.users[u].exited_at >= Deadline(last.locals)
                          /\ last.locals.users[u].exited_at
                                < Deadline(last.locals) + LongestRound)
    /\ [][(frame # None /\ frame.op = "run_concurrent_test")
              => Remaining' < Remaining]_vars

\* a run of two users has returned; a user left its loop after the deadline,
\* when it woke up from the sleep after a call that was in flight at the
\* deadline
C26_Witness ==
    /\ ConcurrentReturned
    /\ Len(last.locals.users) = 2
    /\ last.locals.duration_seconds > 0
    /\ \E u \in DOMAIN last.locals.users :
          /\ last.locals.users[u].exited_at > Deadline(last.locals) + 1
          /\ last.locals.users[u].calls # <<>>
    /\ clock > Deadline(last.locals)

-----------------------------------------------------------------------------
(* Properties of _calculate_stats, checked under SpecStats.                 *)

\* the number of elements of xs below, and above, v
CountBelow(xs, v) == Cardinality({i \in DOMAIN xs : xs[i] < v})
CountAbove(xs, v) == Cardinality({i \in DOMAIN xs : xs[i] > v})

\* _calculate_stats has returned the statistics of a non-empty sample
StatsReturned ==
    /\ last # None /\ last.op = "_calculate_stats" /\ last.event = "return"
    /\ last.times # <<>>

\* C12: for a non-empty sample _calculate_stats returns its minimum, its
\* maximum, its mean and its median; the standard deviation is 0 for one
\* element; p95 is the maximum below 20 elements and p99 is the maximum
\* below 100 elements.
C12_StatsOfSample ==
    StatsReturned =>
        LET xs == last.times
            n == Len(xs)
            h == n \div 2
            r == last.ret
        IN  /\ r.min_ms[2] = 1 /\ r.max_ms[2] = 1
            /\ \E i \in DOMAIN xs : xs[i] = r.min_ms[1]
            /\ \A i \in DOMAIN xs : r.min_ms[1] <= xs[i]
            /\ \E i \in DOMAIN xs : xs[i] = r.max_ms[1]
            /\ \A i \in DOMAIN xs : r.max_ms[1] >= xs[i]
            /\ r.avg_ms[2] > 0
            /\ r.avg_ms[1] * n = SumSeq(xs) * r.avg_ms[2]
            /\ n % 2 = 1 =>
                  /\ r.median_ms[2] = 1
                  /\ \E i \in DOMAIN xs : xs[i] = r.median_ms[1]
                  /\ CountBelow(xs, r.median_ms[1]) <= h
                  /\ CountAbove(xs, r.median_ms[1]) <= h
            /\ n % 2 = 0 =>
                  \E i, j \in DOMAIN xs :
                      /\ i # j /\ xs[i] <= xs[j]
                      /\ CountBelow(xs, xs[i]) <= h - 1
                      /\ CountAbove(xs, xs[i]) <= h
                      /\ CountAbove(xs, xs[j]) <= h - 1
                      /\ CountBelow(xs, xs[j]) <= h
                      /\ r.median_ms[1] * 2 = (xs[i] + xs[j]) * r.median_ms[2]
            /\ n = 1 => r.std_dev_ms = <<0, 1>>
            /\ n < 20 => r.p95_ms = r.max_ms
            /\ n < 100 => r.p99_ms = r.max_ms

\* the sample [10, 20, 30]: mean 20, median 20, min 10, max 30, p95 = p99 = 30,
\* and a standard deviation of 10 (variance 100)
C12_Witness ==
    /\ StatsReturned
    /\ last.times = <<10, 20, 30>>
    /\ last.ret.avg_ms = <<20, 1>>
    /\ last.ret.median_ms = <<20, 1>>
    /\ last.ret.min_ms = <<10, 1>>
    /\ last.ret.max_ms = <<30, 1>>
    /\ last.ret.std_dev_ms = <<100, 1>>
    /\ last.ret.p95_ms = <<30, 1>>
    /\ last.ret.p99_ms = <<30, 1>>

-----------------------------------------------------------------------------
(* Further properties of the runs, checked under Spec.                      *)

\* the number of calls of cs made to executor op
CallCount(cs, op) == Cardinality({i \in DOMAIN cs : cs[i].op = op})

\* C13: run_single_test calls the relational executor `iterations` times
\* and then the graph executor `iterations` times: every step of the run
\* makes at most one call, which has returned when the step ends, no graph
\* call precedes a relational call, the first graph call comes after the
\* last relational call, and the run ends with `iterations` calls of each.
C13_SqlCallsThenGraphqlCalls ==
    [][LET f == SingleLocals'
       IN  f # None =>
             /\ \A i, j \in DOMAIN f.calls :
                   (i < j /\ f.calls[j].op = "execute_sql_query")
                       => f.calls[i].op = "execute_sql_query"
             /\ CallCount(f.calls, "execute_sql_query") <= f.iterations
             /\ CallCount(f.calls, "execute_graphql_query") <= f.iterations
             /\ CallCount(f.calls, "execute_graphql_query") > 0
                   => CallCount(f.calls, "execute_sql_query") = f.iterations
             /\ (backend_calls.sql' - backend_calls.sql)
                   + (backend_calls.graphql' - backend_calls.graphql) <= 1
             /\ SingleLocals # None =>
                   /\ Len(f.calls) <= Len(SingleLocals.calls) + 1
                   /\ SubSeq(f.calls, 1, Len(SingleLocals.calls)) = SingleLocals.calls
             /\ SingleEnded' =>
                   /\ CallCount(f.calls, "execute_sql_query") = f.iterations
                   /\ CallCount(f.calls, "execute_graphql_query") = f.iterations]_vars

\* a run of two iterations has ended: two relational calls, then two graph calls
C13_Witness ==
    /\ SingleReturned
    /\ last.locals.iterations = 2
    /\ Len(last.locals.calls) = 4
    /\ last.locals.calls[2].op = "execute_sql_query"
    /\ last.locals.calls[3].op = "execute_graphql_query"

\* the two entry points that run one test
SingleOps == {"run_single_test", "run_individual_test"}

\* C14: a run of one test on a known name has the status at its running
\* value from its start to its end; when it has returned, the record it
\* returned is the last record of the history and the status is idle.
C14_SingleRunSetsStatusAndAppends ==
    /\ (frame # None /\ frame.op \in SingleOps /\ frame.pc \in {"sql", "graphql", "stats"})
          => test_status \in {"running_single", "running_individual"}
    /\ (last # None /\ last.op \in SingleOps /\ last.event = "return")
          => /\ test_results # <<>>
             /\ test_results[Len(test_results)] = last.ret
             /\ test_status = "idle"

\* run_single_test has returned a record on a fresh engine: the history is empty
C14_Witness ==
    /\ SingleReturned
    /\ last.locals.iterations = 1
    /\ test_results = <<>>
    /\ test_status = "idle"

-----------------------------------------------------------------------------
(* Properties of two overlapping executor calls, checked under SpecRace.    *)

\* the two calls have returned
RaceEnded ==
    last # None /\ last.op = "execute_sql_query" /\ last.event = "return"

\* the two calls were for the same query with use_cache, and each looked up
\* before the other wrote, and found nothing
BothMissedBeforeWrite(f) ==
    /\ f.callers[1].query = f.callers[2].query
    /\ f.callers[1].use_cache /\ f.callers[2].use_cache
    /\ f.callers[1].missed /\ f.callers[2].missed
    /\ f.callers[1].wrote = 0 \/ f.callers[2].looked_up < f.callers[1].wrote
    /\ f.callers[2].wrote = 0 \/ f.callers[1].looked_up < f.callers[2].wrote

\* C29: when two execute_sql_query calls with use_cache for the same query
\* both look up before either has written and find nothing, both call the
\* database: the call counter goes up by 2 and no result is a cache hit;
\* when the database answered both and Redis took both writes, both wrote:
\* the sets counter goes up by 2.
C29_NoSingleFlight ==
    (RaceEnded /\ BothMissedBeforeWrite(last.locals)) =>
        LET f == last.locals
        IN  /\ backend_calls.sql = f.start.backend_calls.sql + 2
            /\ \A c \in DOMAIN f.callers :
                  "cache_hit" \in DOMAIN f.callers[c].ret => ~f.callers[c].ret.cache_hit
            /\ cache_stats.sets = f.start.cache_stats.sets
                  + Cardinality({c \in DOMAIN f.callers : f.callers[c].wrote > 0})
            /\ (\A c \in DOMAIN f.callers :
                    "error" \notin DOMAIN f.callers[c].ret /\ f.callers[c].wrote > 0)
                  => cache_stats.sets = f.start.cache_stats.sets + 2

\* both calls looked up on a fresh engine before either wrote, both got the
\* rows from the database and both wrote
C29_Witness ==
    /\ RaceEnded
    /\ BothMissedBeforeWrite(last.locals)
    /\ last.locals.start.cache_stats.sets = 0
    /\ last.locals.callers[1].wrote > 0
    /\ last.locals.callers[2].wrote > 0
    /\ backend_calls.sql = 2
    /\ cache_stats.sets = 2
    /\ ~last.locals.callers[1].ret.cache_hit
    /\ ~last.locals.callers[2].ret.cache_hit

-----------------------------------------------------------------------------
(* Properties of the cache manager, checked under SpecCache.                *)

\* get_cache_stats has returned
CacheStatsReturned == last # None /\ last.op = "get_cache_stats"

\* C27: what get_cache_stats returns holds the four counters and a
\* hit_rate_percent that is hits / (hits + misses) * 100, and 0 when
\* hits + misses is 0, whatever redis.info answered.
C27_CacheStatsReport ==
    CacheStatsReturned =>
        /\ {"hits", "misses", "sets", "deletes", "hit_rate_percent"} \subseteq DOMAIN last.ret
        /\ last.ret.hits = cache_stats.hits
        /\ last.ret.misses = cache_stats.misses
        /\ last.ret.sets = cache_stats.sets
        /\ last.ret.deletes = cache_stats.deletes
        /\ last.ret.hit_rate_percent[2] > 0
        /\ last.ret.hit_rate_percent[1] * (cache_stats.hits + cache_stats.misses)
              = 100 * cache_stats.hits * last.ret.hit_rate_percent[2]

\* get_cache_stats has returned after redis.info raised: the dict has the
\* four counters only
C27_Witness ==
    /\ CacheStatsReturned
    /\ last.info.raised
    /\ DOMAIN last.ret = {"hits", "misses", "sets", "deletes"}

\* get_cache_stats has returned 33.33 for 1 hit in 3 lookups
C27_WitnessRounded ==
    /\ CacheStatsReturned
    /\ ~last.info.raised
    /\ cache_stats.hits = 1 /\ cache_stats.misses = 2
    /\ last.ret.hit_rate_percent = <<3333, 100>>

\* C28: absent params and an empty list of params give the same key; a key
\* of the namespace "query" is never a key of the namespace "warm"; the
\* entries warm_cache wrote are under keys of the namespace "warm" only, and
\* what get_cached_query returns for a hit is never an entry of warm_cache.
C28_WarmKeysNeverHit ==
    /\ \A p \in {"query", "warm"}, q \in CacheQueries :
          _generate_cache_key(p, q, None) = _generate_cache_key(p, q, PyList(<<>>))
    /\ \A q1 \in CacheQueries, q2 \in CacheQueries,
          p1 \in CacheParams, p2 \in CacheParams :
          /\ _generate_cache_key("query", q1, p1) # _generate_cache_key("warm", q2, p2)
          /\ (q1 # q2) => _generate_cache_key("query", q1, p1)
                              # _generate_cache_key("query", q2, p2)
    /\ \A k \in DOMAIN redis : redis[k] = WarmEntry => k[1] = "warm"
    /\ (last # None /\ last.op = "get_cached_query" /\ last.ret # None)
          => "warmed" \notin DOMAIN last.ret

\* get_cached_query of a query has missed while the entry warm_cache wrote
\* for the query and the same params is in Redis
C28_Witness ==
    /\ last # None
    /\ last.op = "get_cached_query"
    /\ last.ret = None
    /\ redis[_generate_cache_key("warm", last.query, last.params)] = WarmEntry
    /\ cache_stats.sets = 0

-----------------------------------------------------------------------------
(* Properties of run_comprehensive_tests, checked under SpecComprehensive. *)
(* The `runs` of its frame list the scenarios it has run so far, each with *)
(* its outcome.                                                             *)

\* a run_comprehensive_tests is in progress
InComprehensive == frame # None /\ frame.op = "run_comprehensive_tests"

\* a run_comprehensive_tests has returned or raised
ComprehensiveEnded ==
    /\ last # None
    /\ last.op = "run_comprehensive_tests"
    /\ last.event \in {"return", "raise"}

\* the scenarios the run_comprehensive_tests in progress, or the one that
\* ended, has run
ComprehensiveRuns ==
    IF InComprehensive THEN frame.runs
    ELSE IF ComprehensiveEnded THEN last.locals.runs
    ELSE <<>>

\* record rec of the history is the record of the run described by run
RecordOf(rec, run) ==
    IF run.kind = "single"
    THEN /\ rec.test_name = run.test_name
         /\ rec.iterations = run.iterations
         /\ rec.use_cache = run.use_cache
    ELSE /\ rec.test_name = run.test_name \o "_concurrent"
         /\ rec.concurrent_users = run.concurrent_users
         /\ rec.duration_seconds = run.duration_seconds

\* C15: when run_comprehensive_tests has returned, it has run 3 x |tests| + 2
\* scenarios and the history holds their records in the order of the runs:
\* every test without cache and 10 iterations, then every test with cache
\* and 10 iterations, then every test without cache and 50 iterations, then
\* the concurrent runs of simple_select and of customer_orders with 20 users
\* and 60 seconds.
C15_ComprehensiveMatrixInOrder ==
    (ComprehensiveEnded /\ last.event = "return") =>
        LET n == Cardinality(DOMAIN test_queries)
            runs == last.locals.runs
            block == <<[use_cache |-> FALSE, iterations |-> 10],
                       [use_cache |-> TRUE, iterations |-> 10],
                       [use_cache |-> FALSE, iterations |-> 50]>>
            named == <<"simple_select", "customer_orders">>
        IN  /\ Len(runs) = 3 * n + 2
            /\ Len(test_results) = 3 * n + 2
            /\ \A k \in 1..(3 * n + 2) :
                  /\ runs[k].outcome = "returned"
                  /\ RecordOf(test_results[k], runs[k])
            /\ \A b \in 1..3 :
                  /\ {runs[(b - 1) * n + j].test_name : j \in 1..n} = DOMAIN test_queries
                  /\ \A j \in 1..n :
                        /\ runs[(b - 1) * n + j].kind = "single"
                        /\ runs[(b - 1) * n + j].use_cache = block[b].use_cache
                        /\ runs[(b - 1) * n + j].iterations = block[b].iterations
            /\ \A c \in 1..2 :
                  /\ runs[3 * n + c].kind = "concurrent"
                  /\ runs[3 * n + c].test_name = named[c]
                  /\ runs[3 * n + c].concurrent_users = 20
                  /\ runs[3 * n + c].duration_seconds = 60

\* run_comprehensive_tests has returned on an engine whose history held a
\* record, and the users of its last concurrent run made calls
C15_Witness ==
    /\ ComprehensiveEnded
    /\ last.event = "return"
    /\ test_results # <<>>
    /\ test_results[Len(test_results)].test_name = "customer_orders_concurrent"
    /\ test_results[Len(test_results)].total_requests > 0
    /\ test_results[1].iterations = 10

\* C16: while run_comprehensive_tests is in progress the status is
\* running_comprehensive.
C16_StatusRunningComprehensiveThroughout ==
    InComprehensive => test_status = "running_comprehensive"

\* run_comprehensive_tests is between its two concurrent runs
C16_Witness ==
    /\ InComprehensive
    /\ frame.pc = "matrix"
    /\ Matrix[frame.k].kind = "concurrent"
    /\ Len(frame.runs) = Len(Matrix) - 1
    /\ test_status = "idle"

\* C17: a scenario of run_comprehensive_tests that raised is the last one
\* it ran: the run is over, the status is failed, and the history holds the
\* records of the scenarios before it, in their order, and no other.
C17_RaiseAbandonsMatrix ==
    \A k \in DOMAIN ComprehensiveRuns :
        ComprehensiveRuns[k].outcome = "raised" =>
            /\ k = Len(ComprehensiveRuns)
            /\ frame = None
            /\ ComprehensiveEnded
            /\ last.event = "raise"
            /\ test_status = "failed"
            /\ Len(test_results) = k - 1
            /\ \A j \in 1..(k - 1) :
                  /\ ComprehensiveRuns[j].outcome = "returned"
                  /\ RecordOf(test_results[j], ComprehensiveRuns[j])

\* a scenario raised after others had completed
C17_Witness ==
    /\ ComprehensiveEnded
    /\ last.event = "raise"
    /\ Len(last.locals.runs) > 2
    /\ last.locals.runs[Len(last.locals.runs)].outcome = "raised"
    /\ Len(test_results) = Len(last.locals.runs) - 1
    /\ test_status = "failed"

\* C18: a run that has ended, with no step of it left to take, has not left
\* the status at completed or failed: nothing but the run itself puts the
\* status back to idle.
C18_TerminalStatusReverts ==
    (frame = None /\ last # None /\ last.event \in {"return", "raise"})
        => test_status \notin {"completed", "failed"}

\* run_comprehensive_tests has returned and the status is completed
C18_Witness ==
    /\ ComprehensiveEnded
    /\ last.event = "return"
    /\ frame = None
    /\ test_status = "completed"

\* the running values of the status
RunningStatuses ==
    {"running_single", "running_individual", "running_concurrent",
     "running_comprehensive"}

\* the terminal values of the status
TerminalStatuses == {"completed", "failed"}

\* C19: a step that changes the status takes it from idle to a running
\* value, from a running value to completed or failed, or from completed or
\* failed to idle.
C19_StatusCycle ==
    [][test_status' # test_status =>
          \/ test_status = "idle" /\ test_status' \in RunningStatuses
          \/ test_status \in RunningStatuses /\ test_status' \in TerminalStatuses
          \/ test_status \in TerminalStatuses /\ test_status' = "idle"]_vars

\* a concurrent run inside run_comprehensive_tests has ended: the status is
\* idle with the matrix in progress
C19_Witness ==
    /\ InComprehensive
    /\ test_status = "idle"
    /\ test_results # <<>>
    /\ test_results[Len(test_results)].test_name = "simple_select_concurrent"

\* C20: every step leaves the records of the history in place: the history
\* after the step starts with the history before it.
C20_HistoryOnlyAppends ==
    [][/\ Len(test_results') >= Len(test_results)
       /\ SubSeq(test_results', 1, Len(test_results)) = test_results]_vars

\* run_comprehensive_tests has started on an engine whose history held a
\* record
C20_Witness ==
    /\ InComprehensive
    /\ frame.k = 1
    /\ frame.runs = <<>>
    /\ test_results = <<>>
    /\ redis # [k \in CacheKeys |-> None]

-----------------------------------------------------------------------------
(* Properties of the trigger endpoints, checked under SpecTrigger.          *)

\* the tasks that have started their run and have writes of the history or
\* of a running status ahead
RunningTasks == {t \in DOMAIN Tasks : Tasks[t].pc \in {"calls", "matrix"}}

\* C30: of the runs started through the trigger endpoints at most one is in
\* progress at a time, and no run started when the status showed a run in
\* progress.
C30_OneRunAtATime ==
    /\ Cardinality(RunningTasks) <= 1
    /\ \A t \in DOMAIN Tasks :
          Tasks[t].pc # "start" => Tasks[t].seen \notin RunningStatuses

\* a run_individual_test that started while run_comprehensive_tests was in
\* its matrix has appended its record after the first two records of the
\* matrix and set the status to completed
C30_Witness ==
    /\ Len(Tasks) = 2
    /\ Tasks[1].kind = "comprehensive" /\ Tasks[1].pc = "matrix" /\ Tasks[1].k = 3
    /\ Tasks[2].kind = "individual" /\ Tasks[2].pc = "sleep"
    /\ Tasks[2].seen = "running_comprehensive"
    /\ Len(test_results) = 3
    /\ test_results[3].kind = "individual"
    /\ test_status = "completed"

-----------------------------------------------------------------------------
(* The shape of the executors' records, checked under SpecExec.             *)

\* the success fields of a record
SuccessFields == {"data", "cache_hit"}

\* C31: a record an executor returns has the two success fields, data and
\* cache_hit, or it has the error field: a record with the error field has
\* neither success field, and a record without it has both.
C31_SuccessOrError ==
    (IsExec(last) /\ ~last.raised) =>
        /\ "error" \in DOMAIN last.ret => SuccessFields \cap DOMAIN last.ret = {}
        /\ "error" \notin DOMAIN last.ret => SuccessFields \subseteq DOMAIN last.ret

\* the gateway answered 200 with query errors: the record has the success
\* fields and the errors of the answer, and no error field
C31_Witness ==
    /\ IsExec(last) /\ last.op = "execute_graphql_query"
    /\ BackendCalled(last)
    /\ ~last.env.http.raised /\ last.env.http.status = 200
    /\ "errors" \in DOMAIN last.env.http.body
    /\ "errors" \in DOMAIN last.ret
    /\ SuccessFields \subseteq DOMAIN last.ret

-----------------------------------------------------------------------------
(* Backend errors in run_individual_test, checked under Spec.               *)

\* a run_individual_test on a known test has ended, by return or by an exception
IndividualEnded ==
    /\ last # None /\ last.op = "run_individual_test"
    /\ last.event \in {"return", "raise"}
    /\ last.locals # None

\* the backend of call c of a run_individual_test failed
IndividualCallFailed(c) ==
    IF c.op = "execute_query_async" THEN c.env.db.raised ELSE BackendFailed(c)

\* the calls of cs to operation op, and those of them whose backend failed
CallsTo(cs, op) == {i \in DOMAIN cs : cs[i].op = op}
FailedCalls(cs, op) == {i \in CallsTo(cs, op) : IndividualCallFailed(cs[i])}

\* C32: a run_individual_test in which the backend of a call failed still
\* returns and appends its record, and the times it averages for a backend
\* are those of the calls to that backend that did not fail: a failed call
\* adds no value.
C32_IndividualErrorsIsolated ==
    LET cs == last.locals.calls
    IN  (/\ IndividualEnded
         /\ \E i \in DOMAIN cs : IndividualCallFailed(cs[i]))
        => /\ last.event = "return"
           /\ test_results # <<>>
           /\ test_results[Len(test_results)] = last.ret
           /\ Len(last.ret.sql_times)
                 = Cardinality(CallsTo(cs, "execute_query_async")
                                 \ FailedCalls(cs, "execute_query_async"))
           /\ Len(last.ret.graphql_times)
                 = Cardinality(CallsTo(cs, "execute_graphql_query")
                                 \ FailedCalls(cs, "execute_graphql_query"))

\* a run of two iterations whose first gateway call failed has returned: its
\* graphql_times hold a 0 for the failed call, and the average is taken over both
C32_Witness ==
    /\ IndividualEnded
    /\ last.event = "return"
    /\ last.locals.iterations = 2
    /\ FailedCalls(last.locals.calls, "execute_graphql_query") = {3}
    /\ Len(last.ret.graphql_times) = 2
    /\ last.ret.graphql_times[1] = <<0, 1>>
    /\ last.ret.graphql_times[2] = <<1, 1>>
    /\ last.ret.graphql_time = <<1, 2>>

\* a run whose first database call raised has ended with the exception: no
\* gateway call was made and no record was appended
C32_WitnessAborted ==
    /\ IndividualEnded
    /\ last.event = "raise"
    /\ Len(last.locals.calls) = 1
    /\ last.locals.calls[1].op = "execute_query_async"
    /\ last.locals.calls[1].env.db.raised
    /\ last.locals.iterations = 2
    /\ test_results = <<>>

-----------------------------------------------------------------------------
(* Queries the graph gateway rejects, checked under SpecExec.               *)

\* the gateway answered call l, and rejected its query: with a status other
\* than 200, or with 200 and query errors in the body
GraphqlRejected(l) ==
    /\ l.op = "execute_graphql_query"
    /\ BackendCalled(l)
    /\ ~l.env.http.raised
    /\ \/ l.env.http.status # 200
       \/ "errors" \in DOMAIN l.env.http.body

\* C33: an execute_graphql_query whose query the gateway rejected returns a
\* record with the error field, and leaves the cache contents and the sets
\* counter as they were.
C33_RejectedQueryIsError ==
    [][(IsExec(last') /\ GraphqlRejected(last'))
       => (/\ ~last'.raised
           /\ "error" \in DOMAIN last'.ret
           /\ redis' = redis
           /\ cache_stats'.sets = cache_stats.sets)]_vars

\* a cached call the gateway answered with 200 and query errors: nothing was
\* written, and the record has data, cache_hit and errors, and no error field
C33_Witness ==
    /\ IsExec(last) /\ last.use_cache
    /\ GraphqlRejected(last)
    /\ last.env.http.status = 200
    /\ "error" \notin DOMAIN last.ret
    /\ "errors" \in DOMAIN last.ret
    /\ last.ret.cache_hit = FALSE
    /\ redis = [k \in CacheKeys |-> None]
    /\ cache_stats.sets = 0

-----------------------------------------------------------------------------
(* The counters of the cache manager, checked under SpecCache.              *)

\* the step is a call of operation op of the cache manager
CacheCall(op) == CacheCallsMade' = CacheCallsMade + 1 /\ last'.op = op

\* C34: a call of get_cached_query changes exactly one of the counters hits
\* and misses, and changes it by 1, whatever Redis answers and whatever the
\* stored value is; it leaves sets and deletes as they were.
C34_LookupCountsOnce ==
    [][CacheCall("get_cached_query")
       => (/\ \/ /\ cache_stats'.hits = cache_stats.hits + 1
                 /\ cache_stats'.misses = cache_stats.misses
              \/ /\ cache_stats'.hits = cache_stats.hits
                 /\ cache_stats'.misses = cache_stats.misses + 1
           /\ cache_stats'.sets = cache_stats.sets
           /\ cache_stats'.deletes = cache_stats.deletes)]_vars

\* the first lookup of a cache manager found a string of another client
\* under its key: it returned None and has counted a hit and a miss
C34_Witness ==
    /\ last # None /\ last.op = "get_cached_query"
    /\ last.seq = 1
    /\ last.reply = "reply"
    /\ redis[_generate_cache_key("query", last.query, last.params)] = Undecodable
    /\ last.ret = None
    /\ cache_stats = [hits |-> 1, misses |-> 1, sets |-> 0, deletes |-> 0]

\* C35: sets increases, by 1, in exactly the calls of cache_query_result that
\* stored the entry and returned true; deletes increases in the calls of
\* invalidate_cache_pattern only, by the count the call returns; a write that
\* returns false and an invalidation that fails return false and 0, store and
\* delete nothing and leave the four counters as they were.
C35_SetsAndDeletesCount ==
    [][/\ CacheCall("cache_query_result")
          => LET k == _generate_cache_key("query", last'.query, last'.params)
             IN  /\ last'.ret \in BOOLEAN
                 /\ last'.ret <=> last'.reply = "reply"
                 /\ last'.ret => /\ redis'[k] = Entry(<<"row">>)
                                 /\ cache_stats' = [cache_stats EXCEPT !.sets = @ + 1]
                 /\ ~last'.ret => redis' = redis /\ cache_stats' = cache_stats
       /\ CacheCall("invalidate_cache_pattern")
          => /\ cache_stats' = [cache_stats EXCEPT !.deletes = @ + last'.ret]
             /\ last'.ret = Cardinality({k \in DOMAIN redis :
                                            redis[k] # None /\ redis'[k] = None})
             /\ (last'.keys_reply = "error" \/ last'.delete_reply = "error")
                   => last'.ret = 0 /\ redis' = redis /\ cache_stats' = cache_stats
       /\ cache_stats'.sets # cache_stats.sets => CacheCall("cache_query_result")
       /\ cache_stats'.deletes # cache_stats.deletes
             => CacheCall("invalidate_cache_pattern")]_vars

\* an invalidation of the query namespace has deleted the one entry written
\* before it, and has counted it
C35_Witness ==
    /\ last # None /\ last.op = "invalidate_cache_pattern"
    /\ last.seq = 2
    /\ last.pattern = "query:*"
    /\ last.ret = 1
    /\ cache_stats = [hits |-> 0, misses |-> 0, sets |-> 1, deletes |-> 1]
    /\ \A k \in DOMAIN redis : redis[k] = None

\* a write that Redis refused has returned false
C35_WitnessFailedWrite ==
    /\ last # None /\ last.op = "cache_query_result"
    /\ last.reply = "error"
    /\ last.ret = FALSE
    /\ cache_stats = [hits |-> 0, misses |-> 0, sets |-> 0, deletes |-> 0]

-----------------------------------------------------------------------------
(* Runs without the cache, checked under Spec.                              *)

-----------------------------------------------------------------------------
(* The end of run_single_test, checked under Spec.                          *)

\* C37: a run_single_test on a known test ends by returning its record,
\* whatever the number of iterations, the outcomes of its calls and the
\* times they measured.
C37_SingleRunNeverRaises ==
    SingleEnded =>
        /\ last.event = "return"
        /\ last.ret # None
        /\ last.ret.test_name = last.test_name
        /\ last.ret.iterations = last.locals.iterations

\* a cached run of one iteration whose SQL call was answered from the cache
\* with a latency that rounds to 0.0 ms has ended with ZeroDivisionError
C37_Witness ==
    /\ SingleEnded
    /\ last.event = "raise"
    /\ last.exception = "ZeroDivisionError"
    /\ last.locals.use_cache
    /\ last.locals.iterations = 1
    /\ last.locals.sql_results[1].cache_hit = TRUE
    /\ last.locals.sql_results[1].execution_time_ms = 0
    /\ "error" \notin DOMAIN last.locals.graphql_results[1]

-----------------------------------------------------------------------------
(* The counts of a concurrent record, checked under SpecConcurrent.         *)

\* the merged results with an error, and those without one of query type t
Errored(results) == {i \in DOMAIN results : "error" \in DOMAIN results[i]}
Succeeded(results, t) ==
    {i \in DOMAIN results : "error" \notin DOMAIN results[i] /\ results[i].query_type = t}

\* C38: in a concurrent record successful_requests is the number of merged
\* results without an error, relational and graph together, and with the
\* number of merged results that carry an error it adds up to
\* total_requests: every merged result is of exactly one of the three kinds.
C38_CountsAddUp ==
    ConcurrentReturned =>
        LET results == last.locals.results
        IN  /\ last.ret.total_requests = Len(results)
            /\ last.ret.successful_requests
                  = Cardinality(Succeeded(results, "sql"))
                      + Cardinality(Succeeded(results, "graphql"))
            /\ last.ret.successful_requests + Cardinality(Errored(results))
                  = last.ret.total_requests
            /\ \A i \in DOMAIN results :
                  Cardinality({S \in {Errored(results), Succeeded(results, "sql"),
                                      Succeeded(results, "graphql")} : i \in S}) = 1

\* a concurrent record of three results: a relational success, a graph
\* success and an error
C38_Witness ==
    /\ ConcurrentReturned
    /\ last.ret.total_requests = 3
    /\ last.ret.successful_requests = 2
    /\ Cardinality(Succeeded(last.locals.results, "sql")) = 1
    /\ Cardinality(Succeeded(last.locals.results, "graphql")) = 1
    /\ Cardinality(Errored(last.locals.results)) = 1

-----------------------------------------------------------------------------
(* Properties of the results query, checked under SpecResults.              *)

ResultsQueried == last # None /\ last.op = "get_test_results"

\* C39: the results query returns at most `limit` records, they are the
\* records appended last, in the order of the history, and total_results is
\* the length of the whole history.
C39_ResultsAreLastLimit ==
    ResultsQueried =>
        LET history == last.history
            n == IF last.limit < Len(history) THEN last.limit ELSE Len(history)
        IN  /\ Len(last.ret.results) <= last.limit
            /\ Len(last.ret.results) = n
            /\ \A i \in 1..n : last.ret.results[i] = history[Len(history) - n + i]
            /\ last.ret.total_results = Len(history)

\* a query with limit 0 on a history of two records has returned both
C39_Witness ==
    /\ ResultsQueried
    /\ last.limit = 0
    /\ Len(last.history) = 2
    /\ last.ret.results = last.history
    /\ last.ret.total_results = 2

\* a query with limit 1 on a history of two records has returned the second
C39_WitnessLast ==
    /\ ResultsQueried
    /\ last.limit = 1
    /\ Len(last.history) = 2
    /\ last.ret.results = <<last.history[2]>>

-----------------------------------------------------------------------------
(* The end of run_concurrent_test, checked under SpecConcurrent.            *)

\* a run_concurrent_test on a known test has ended, by return or by an exception
ConcurrentEnded ==
    /\ last # None /\ last.op = "run_concurrent_test"
    /\ last.event \in {"return", "raise"}
    /\ last.test_name \in DOMAIN test_queries

\* C40: a run_concurrent_test on a known test ends by returning its record,
\* whatever the number of users and the duration; with no user or with a
\* duration of 0 the record has total_requests 0 and error_rate_percent 0.
C40_ConcurrentRunNeverRaises ==
    ConcurrentEnded =>
        /\ last.event = "return"
        /\ last.ret # None
        /\ (last.locals.concurrent_users = 0 \/ last.locals.duration_seconds = 0)
              => /\ last.ret.total_requests = 0
                 /\ last.ret.error_rate_percent = <<0, 1>>

\* a run of two users with a duration of 0 has ended with ZeroDivisionError:
\* no user made a call, and the status is idle
C40_Witness ==
    /\ ConcurrentEnded
    /\ last.event = "raise"
    /\ last.exception = "ZeroDivisionError"
    /\ last.locals.duration_seconds = 0
    /\ last.locals.concurrent_users = 2
    /\ last.locals.results = <<>>
    /\ backend_calls = [sql |-> 0, graphql |-> 0]
    /\ test_status = "idle"

\* a run without users and with a positive duration has returned a record
\* without requests
C40_WitnessNoUser ==
    /\ ConcurrentEnded
    /\ last.event = "return"
    /\ last.locals.concurrent_users = 0
    /\ last.locals.duration_seconds > 0
    /\ last.ret.total_requests = 0
    /\ last.ret.error_rate_percent = <<0, 1>>

====
